---- MODULE Spec2Model ----
(***************************************************************************)
(* A model of zap2xml-manager's acquisition / merge / refresh pipeline:    *)
(*   - EPGScheduler (scheduler.py): start, stop, the periodic worker loop, *)
(*     refresh_now and _do_refresh;                                        *)
(*   - EPGManager.download_epg (core.py): fetch every source, publish to   *)
(*     the output path, clean up, record last_refresh;                     *)
(*   - fetch_zap2it_epg (zap2it.py): the chunked, retrying window fetch.   *)
(* Spec is the scheduler with its concurrent refreshes; SpecFetch is one   *)
(* call of fetch_zap2it_epg.  The other specifications start the same      *)
(* state machine in other places: SpecMerge (one call of _merge_xmltv),    *)
(* SpecRestart (stop and start again), SpecServe (the API endpoints),      *)
(* SpecLive (the worker loop under fair scheduling), SpecXml (the channels *)
(* of one fragment), SpecPublish (the publish step), SpecTemp (the temp    *)
(* directory), SpecServer (EPGServer.start / stop) and SpecDue (the due    *)
(* predicate over every last_refresh text).                                *)
(***************************************************************************)
EXTENDS Integers, Sequences, FiniteSets, TLC

(***************************************************************************)
(* Bounds of the model.                                                    *)
(***************************************************************************)
MaxLineups == 1     \* configured Zap2it lineups
MaxTime == 1        \* the clock runs 0 .. MaxTime (hours)
DocChunks == 2      \* a document is written to the output path in this many writes
MaxSchedulers == 2  \* EPGScheduler objects one EPGServer creates

VARIABLES
    \* ---- Config (config.py) ----
    lineup_ids,             \* number of configured lineups: get_lineup_list() is 1 .. lineup_ids
    espn_plus_enabled,
    auto_refresh_enabled,
    refresh_interval_hours,
    last_refresh,           \* NoTime, the time of the assignment at core.py:123, or other text
    saved_last_refresh,     \* last_refresh as config.json on disk holds it
    \* ---- the clock ----
    now,
    \* ---- EPGScheduler (scheduler.py) ----
    _running,
    _stop_event,
    _thread,                \* the worker start() created last, or NoThread
    ctl,                    \* the thread calling start()/stop(): "ready" or "joining"
    \* ---- threads: the periodic workers and the refresh_now threads ----
    pc,                     \* where each thread is
    produced_files,         \* download_epg: sources whose fragment was produced, in order
    published,              \* download_epg: the copy/merge call of this run has returned
    result,                 \* download_epg: "none", or how the run ended
    \* ---- the output path ----
    outFile,                \* the chunks of the file at config.output_path
    wpos,                   \* each writer's own file offset
    \* ---- fetch_zap2it_epg (zap2it.py), one call ----
    lineup_id,              \* argument: a sequence of characters
    postal_code,            \* argument: "" or a postal code
    timespan_hours,         \* argument
    delay_seconds,          \* argument
    base_time,              \* int(time.time()) at zap2it.py:353
    fpc,                    \* where the call is
    fidx,                   \* idx of the window loop
    attempt,
    nNet,                   \* this window: attempts that raised RequestException
    nTrans,                 \* this window: attempts answered 429 or 5xx
    sleeps,                 \* this window: the backoff sleeps, in tenths of a second
    status,                 \* status code of the last response (0: none)
    reqs,                   \* window GETs issued, per window begun
    wtime,                  \* the time parameter of each window's URL
    wres,                   \* how each finished window ended
    delayed,                \* the windows after which time.sleep(delay_seconds) ran, in order
    channels_map,           \* the channelIds accumulated
    warmups,                \* session warm-up GETs issued
    file_written,           \* _write_xmltv wrote the fragment file
    fresult,                \* the FetchResult returned ("none": not yet)
    \* ---- EPGManager._merge_xmltv (core.py), one call ----
    paths,                  \* argument: the fragments, in fetch order
    mpc,                    \* where the call is
    tv_root,                \* the document written to out_path
    \* ---- EPGRequestHandler (server.py) ----
    response,               \* the JSON body of the last API response sent
    \* ---- the channels of a fragment (zap2it.py), one fetch ----
    api_channels,           \* the channel objects of the parsed responses, in order
    xml_channels,           \* the id attributes of the channel elements written
    xpc,                    \* where the writing is
    \* ---- the publish step of download_epg (core.py:102-117) ----
    merge_lineups,          \* config.merge_lineups
    \* ---- the temp directory (get_data_dir() / "temp") ----
    temp_dir,               \* for each fragment file name: whose fetch wrote it last
    \* ---- EPGServer (server.py) ----
    server_running,         \* self._running
    server_scheduler,       \* self.scheduler: an EPGScheduler, or NoScheduler
    server_ret,             \* what the last call of start() returned ("none": no call)
    schedulers              \* each EPGScheduler made by start(): its state and worker

\* config.last_refresh = None (config.py:62); times are >= 0
NoTime == -1
\* config.last_refresh is text read from config.json: what download_epg writes is
\* an ISO timestamp with a UTC offset (core.py:123), here the time t >= 0 itself.
\* Text that datetime.fromisoformat rejects is Garbage; an ISO timestamp without an
\* offset, which fromisoformat parses to a naive datetime, is Naive(t).
Garbage == -2
Naive(t) == -10 - t
IsNaive(x) == x <= -10
\* The point of time a datetime names, its offset (or the lack of one) left aside.
Instant(x) == IF IsNaive(x) THEN -10 - x ELSE x
\* self._thread = NoThread (scheduler.py:28)
NoThread == <<"none", 0>>

\* Threads: the periodic workers start() may create (scheduler.py:39) and the
\* threads refresh_now() may create (scheduler.py:111).
WorkerIds == {<<"w", 1>>, <<"w", 2>>}
ManualIds == {<<"m", 1>>, <<"m", 2>>}
Threads == WorkerIds \cup ManualIds
\* The threads of Spec: one periodic worker and one refresh_now thread.
SpecWorkers == {<<"w", 1>>}
SpecManuals == {<<"m", 1>>}

schedVars == <<_running, _stop_event, _thread, ctl>>
cfgVars == <<lineup_ids, espn_plus_enabled, auto_refresh_enabled,
             refresh_interval_hours>>
dlVars == <<produced_files, published, result>>
fileVars == <<outFile, wpos>>
fetchVars == <<lineup_id, postal_code, timespan_hours, delay_seconds, base_time, fpc,
               fidx, attempt, nNet, nTrans, sleeps, status, reqs, wtime, wres, delayed,
               channels_map, warmups, file_written, fresult>>
mergeVars == <<paths, mpc, tv_root>>
httpVars == <<response>>
xmlVars == <<api_channels, xml_channels, xpc>>
srvVars == <<server_running, server_scheduler, server_ret, schedulers>>
otherVars == <<xmlVars, merge_lineups, temp_dir, srvVars>>
vars == <<cfgVars, last_refresh, saved_last_refresh, now, schedVars, pc, dlVars,
          fileVars, fetchVars, mergeVars, httpVars, otherVars>>

\* The scheduler's and the manager's state.
mgrVars == <<cfgVars, last_refresh, saved_last_refresh, now, schedVars, pc, dlVars,
            fileVars>>

\* The document a complete publish by writer w leaves at the output path.
Doc(w) == [i \in 1..DocChunks |-> w]
PrevDoc == Doc(<<"prev", 0>>)

\* pc values inside download_epg
DlPcs == {"dl_start", "dl_lineup", "dl_espn", "dl_open", "dl_write",
          "dl_cleanup", "dl_setlast", "dl_save", "dl_return"}

\* A thread is executing a refresh: it is inside _do_refresh / download_epg.
InRefresh(t) == pc[t] \in DlPcs

\* The fetch call at rest: the state of its variables in Spec, where the outcome of
\* a fetch is an input of download_epg.
FetchIdle ==
    /\ lineup_id = <<>>
    /\ postal_code = ""
    /\ timespan_hours = 0
    /\ delay_seconds = 0
    /\ base_time = 0
    /\ fpc = "off"
    /\ fidx = 0
    /\ attempt = 0
    /\ nNet = 0
    /\ nTrans = 0
    /\ sleeps = <<>>
    /\ status = 0
    /\ reqs = <<>>
    /\ wtime = <<>>
    /\ wres = <<>>
    /\ delayed = <<>>
    /\ channels_map = {}
    /\ warmups = 0
    /\ file_written = FALSE
    /\ fresult = "none"

\* A document: its channel elements and its programme elements, in document order.
NoDoc == [channel |-> <<>>, programme |-> <<>>]

\* The merge call at rest: the state of its variables in Spec and SpecFetch.
MergeIdle ==
    /\ paths = <<>>
    /\ mpc = "off"
    /\ tv_root = NoDoc

\* self.scheduler = None (server.py:177), and a file that does not exist
NoScheduler == 0
NoFile == <<"nofile", 0>>
\* The EPGScheduler objects one EPGServer may create, and the file names of the
\* temp directory: zap2it_<lineup>.xml of lineup 1 .. MaxLineups.
SchedulerIds == 1..MaxSchedulers
TempFiles == 1..MaxLineups

\* No fragment is being written.
XmlIdle ==
    /\ api_channels = <<>>
    /\ xml_channels = <<>>
    /\ xpc = "off"
\* The temp directory is empty.
TempIdle == temp_dir = [f \in TempFiles |-> NoFile]
\* No EPGServer has been started.
SrvIdle ==
    /\ server_running = FALSE
    /\ server_scheduler = NoScheduler
    /\ server_ret = "none"
    /\ schedulers = [k \in SchedulerIds |-> [_running |-> FALSE, _stop_event |-> FALSE,
                                              worker |-> "none"]]
\* config.merge_lineups has its default (config.py:48).
OtherIdle ==
    /\ XmlIdle
    /\ merge_lineups = TRUE
    /\ TempIdle
    /\ SrvIdle

\* No API response has been sent.
NoResponse == [status |-> "none"]

\* The request handler at rest.
HttpIdle == response = NoResponse

Init ==
    /\ lineup_ids \in 0..MaxLineups
    /\ espn_plus_enabled \in BOOLEAN
    /\ auto_refresh_enabled \in BOOLEAN
    /\ refresh_interval_hours = 1
    /\ last_refresh \in {NoTime, 0}
    /\ saved_last_refresh = last_refresh
    /\ now = 0
    /\ _running = FALSE
    /\ _stop_event = FALSE
    /\ _thread = NoThread
    /\ ctl = "ready"
    /\ pc = [t \in Threads |-> "idle"]
    /\ produced_files = [t \in Threads |-> <<>>]
    /\ published = [t \in Threads |-> FALSE]
    /\ result = [t \in Threads |-> "none"]
    /\ outFile = PrevDoc
    /\ wpos = [t \in Threads |-> 0]
    /\ FetchIdle
    /\ MergeIdle
    /\ HttpIdle
    /\ OtherIdle

(***************************************************************************)
(* EPGScheduler                                                            *)
(***************************************************************************)

\* threading.Thread(...): a thread not in use; which one is immaterial, so the
\* least is taken.  No thread is created when all of the set are alive.
NewThread(S) ==
    LET free == {t \in S : pc[t] = "idle"}
    IN IF free = {} THEN NoThread
       ELSE CHOOSE t \in free : \A u \in free : t[2] <= u[2]

\* _should_refresh answering only once the interval is exceeded: now > next_refresh.
_should_refresh_late ==
    IF ~auto_refresh_enabled THEN FALSE
    ELSE IF last_refresh = NoTime THEN TRUE
    ELSE now > last_refresh + refresh_interval_hours

\* scheduler.py:72-86
_should_refresh ==
    IF ~auto_refresh_enabled THEN FALSE
    ELSE IF last_refresh = NoTime THEN TRUE
    \* fromisoformat raises ValueError
    ELSE IF last_refresh = Garbage THEN TRUE
    \* now >= next_refresh of an aware and a naive datetime raises TypeError
    ELSE IF IsNaive(last_refresh) THEN TRUE
    ELSE now >= last_refresh + refresh_interval_hours

\* scheduler.py:32-43: start() while running only logs; otherwise it clears the
\* stop event and spawns a new worker thread.
start(W) ==
    /\ ctl = "ready"
    /\ IF _running
       THEN UNCHANGED <<_stop_event, _thread, _running, pc>>
       ELSE \E w \in W :
              /\ w = NewThread(W)
              /\ _stop_event' = FALSE
              /\ _thread' = w
              /\ pc' = [pc EXCEPT ![w] = "loop_top"]
              /\ _running' = TRUE
    /\ UNCHANGED <<ctl, cfgVars, last_refresh, saved_last_refresh, now, dlVars,
                   fileVars, fetchVars, mergeVars, httpVars, otherVars>>

\* scheduler.py:47-50: stop() on a running scheduler sets the stop event and
\* begins join(timeout=5); on one that is not running it does nothing.
StopSignal ==
    /\ ctl = "ready"
    /\ IF _running
       THEN _stop_event' = TRUE /\ ctl' = "joining"
       ELSE UNCHANGED <<_stop_event, ctl>>
    /\ UNCHANGED <<_running, _thread, cfgVars, last_refresh, saved_last_refresh, now,
                   pc, dlVars, fileVars, fetchVars, mergeVars, httpVars, otherVars>>

\* StopJoined with join() waiting for the worker without a timeout.
StopJoinedWaits ==
    /\ ctl = "joining"
    /\ pc[_thread] = "idle"
    /\ _running' = FALSE
    /\ ctl' = "ready"
    /\ UNCHANGED <<_stop_event, _thread, cfgVars, last_refresh, saved_last_refresh,
                   now, pc, dlVars, fileVars, fetchVars, mergeVars, httpVars, otherVars>>

\* scheduler.py:50-52: join returns because the worker exited or because the
\* timeout elapsed; either way _running becomes False.
StopJoined ==
    /\ ctl = "joining"
    /\ \/ pc[_thread] = "idle"      \* the worker has exited
       \/ pc[_thread] # "idle"      \* timeout=5 elapsed first
    /\ _running' = FALSE
    /\ ctl' = "ready"
    /\ UNCHANGED <<_stop_event, _thread, cfgVars, last_refresh, saved_last_refresh,
                   now, pc, dlVars, fileVars, fetchVars, mergeVars, httpVars, otherVars>>

\* LoopTop starting no refresh: the worker only sleeps.
LoopTopNeverRefreshes(w) ==
    /\ w \in WorkerIds
    /\ pc[w] = "loop_top"
    /\ pc' = [pc EXCEPT ![w] = IF _stop_event THEN "idle" ELSE "sleep"]
    /\ UNCHANGED <<schedVars, cfgVars, last_refresh, saved_last_refresh, now, dlVars,
                   fileVars, fetchVars, mergeVars, httpVars, otherVars>>

\* LoopTop without the test of the stop event.
LoopTopIgnoresStop(w) ==
    /\ w \in WorkerIds
    /\ pc[w] = "loop_top"
    /\ IF _should_refresh THEN pc' = [pc EXCEPT ![w] = "dl_start"]
       ELSE pc' = [pc EXCEPT ![w] = "sleep"]
    /\ UNCHANGED <<schedVars, cfgVars, last_refresh, saved_last_refresh, now, dlVars,
                   fileVars, fetchVars, mergeVars, httpVars, otherVars>>

\* scheduler.py:61-64: the head of the worker loop.
LoopTop(w) ==
    /\ w \in WorkerIds
    /\ pc[w] = "loop_top"
    /\ IF _stop_event THEN pc' = [pc EXCEPT ![w] = "idle"]
       ELSE IF _should_refresh THEN pc' = [pc EXCEPT ![w] = "dl_start"]
       ELSE pc' = [pc EXCEPT ![w] = "sleep"]
    /\ UNCHANGED <<schedVars, cfgVars, last_refresh, saved_last_refresh, now, dlVars,
                   fileVars, fetchVars, mergeVars, httpVars, otherVars>>

\* scheduler.py:67-70: the worker sleeps up to 60 s in 1 s steps, leaving early
\* when the stop event is set.
LoopSleep(w) ==
    /\ w \in WorkerIds
    /\ pc[w] = "sleep"
    /\ pc' = [pc EXCEPT ![w] = "loop_top"]
    /\ UNCHANGED <<schedVars, cfgVars, last_refresh, saved_last_refresh, now, dlVars,
                   fileVars, fetchVars, mergeVars, httpVars, otherVars>>

\* scheduler.py:109-112: refresh_now() starts _do_refresh on a new thread and returns.
refresh_now(M) ==
    /\ \E m \in M :
         /\ m = NewThread(M)
         /\ pc' = [pc EXCEPT ![m] = "dl_start"]
    /\ UNCHANGED <<schedVars, cfgVars, last_refresh, saved_last_refresh, now, dlVars,
                   fileVars, fetchVars, mergeVars, httpVars, otherVars>>

\* Time passes.
Tick ==
    /\ now < MaxTime
    /\ now' = now + 1
    /\ UNCHANGED <<schedVars, cfgVars, last_refresh, saved_last_refresh, pc, dlVars,
                   fileVars, fetchVars, mergeVars, httpVars, otherVars>>

(***************************************************************************)
(* EPGManager.download_epg, run by thread t                                *)
(***************************************************************************)

\* core.py:47-52
DlStart(t) ==
    /\ pc[t] = "dl_start"
    /\ IF lineup_ids = 0 /\ ~espn_plus_enabled
       THEN /\ result' = [result EXCEPT ![t] = "failure"]
            /\ pc' = [pc EXCEPT ![t] = "dl_return"]
       ELSE /\ result' = result
            /\ pc' = [pc EXCEPT ![t] = IF lineup_ids = 0 THEN "dl_espn" ELSE "dl_lineup"]
    /\ UNCHANGED <<schedVars, cfgVars, last_refresh, saved_last_refresh, now,
                   produced_files, published, fileVars, fetchVars, mergeVars, httpVars, otherVars>>

\* core.py:55: the lineup the loop is at: every earlier one was appended to
\* produced_files, or the loop would have returned.
CurLineup(t) == Len(produced_files[t]) + 1

\* DlLineup treating a failed lineup as the ESPN+ source is treated: logged, and
\* the run goes on to the next source.
DlLineupNonFatal(t) ==
    /\ pc[t] = "dl_lineup"
    /\ \E ok \in BOOLEAN :
         IF ok
         THEN /\ produced_files' = [produced_files EXCEPT ![t] = Append(@, CurLineup(t))]
              /\ pc' = [pc EXCEPT ![t] = IF CurLineup(t) < lineup_ids THEN "dl_lineup"
                                         ELSE "dl_espn"]
         ELSE /\ pc' = [pc EXCEPT ![t] = "dl_espn"]
              /\ UNCHANGED produced_files
    /\ UNCHANGED <<schedVars, cfgVars, last_refresh, saved_last_refresh, now,
                   published, result, fileVars, fetchVars, mergeVars, httpVars, otherVars>>

\* core.py:55-75: one iteration of the lineup loop; ok is the outcome of
\* fetch_zap2it_epg (a success with a file path, or a failure / an exception).
DlLineup(t) ==
    /\ pc[t] = "dl_lineup"
    /\ \E ok \in BOOLEAN :
         IF ok
         THEN /\ produced_files' = [produced_files EXCEPT ![t] = Append(@, CurLineup(t))]
              /\ pc' = [pc EXCEPT ![t] = IF CurLineup(t) < lineup_ids THEN "dl_lineup"
                                         ELSE "dl_espn"]
              /\ result' = result
         ELSE /\ result' = [result EXCEPT ![t] = "failure"]
              /\ pc' = [pc EXCEPT ![t] = "dl_return"]
              /\ UNCHANGED produced_files
    /\ UNCHANGED <<schedVars, cfgVars, last_refresh, saved_last_refresh, now,
                   published, fileVars, fetchVars, mergeVars, httpVars, otherVars>>

\* DlEspn with a failure of the ESPN+ source ending the run, as a failed lineup
\* does.
DlEspnFatal(t) ==
    /\ pc[t] = "dl_espn"
    /\ \E ok \in BOOLEAN :
         LET pf == IF espn_plus_enabled /\ ok THEN Append(produced_files[t], 0)
                   ELSE produced_files[t]
         IN /\ produced_files' = [produced_files EXCEPT ![t] = pf]
            /\ IF pf = <<>> \/ (espn_plus_enabled /\ ~ok)
               THEN /\ result' = [result EXCEPT ![t] = "failure"]
                    /\ pc' = [pc EXCEPT ![t] = "dl_return"]
               ELSE /\ result' = result
                    /\ pc' = [pc EXCEPT ![t] = "dl_open"]
    /\ UNCHANGED <<schedVars, cfgVars, last_refresh, saved_last_refresh, now,
                   published, fileVars, fetchVars, mergeVars, httpVars, otherVars>>

\* DlEspn without the check of core.py:94-95: the run goes on to the copy with
\* nothing produced.
DlEspnNoCheck(t) ==
    /\ pc[t] = "dl_espn"
    /\ \E ok \in BOOLEAN :
         LET pf == IF espn_plus_enabled /\ ok THEN Append(produced_files[t], 0)
                   ELSE produced_files[t]
         IN /\ produced_files' = [produced_files EXCEPT ![t] = pf]
            /\ result' = result
            /\ pc' = [pc EXCEPT ![t] = "dl_open"]
    /\ UNCHANGED <<schedVars, cfgVars, last_refresh, saved_last_refresh, now,
                   published, fileVars, fetchVars, mergeVars, httpVars, otherVars>>

\* core.py:78-95: the optional ESPN+ source (0 names it in produced_files), then
\* the check that something was produced.
DlEspn(t) ==
    /\ pc[t] = "dl_espn"
    /\ \E ok \in BOOLEAN :
         LET pf == IF espn_plus_enabled /\ ok THEN Append(produced_files[t], 0)
                   ELSE produced_files[t]
         IN /\ produced_files' = [produced_files EXCEPT ![t] = pf]
            /\ IF pf = <<>>
               THEN /\ result' = [result EXCEPT ![t] = "failure"]
                    /\ pc' = [pc EXCEPT ![t] = "dl_return"]
               ELSE /\ result' = result
                    /\ pc' = [pc EXCEPT ![t] = "dl_open"]
    /\ UNCHANGED <<schedVars, cfgVars, last_refresh, saved_last_refresh, now,
                   published, fileVars, fetchVars, mergeVars, httpVars, otherVars>>

\* DlOpen with the timestamp taken before the copy: last_refresh is set when the
\* output is opened.
DlOpenStampsFirst(t) ==
    /\ pc[t] = "dl_open"
    /\ outFile' = <<>>
    /\ wpos' = [wpos EXCEPT ![t] = 1]
    /\ pc' = [pc EXCEPT ![t] = "dl_write"]
    /\ last_refresh' = now
    /\ UNCHANGED <<schedVars, cfgVars, saved_last_refresh, now, dlVars, fetchVars, mergeVars, httpVars, otherVars>>

\* core.py:103-117, 175: shutil.copyfile / ElementTree.write open the output path
\* for writing, which truncates it; an OSError here leaves the file as it was.
DlOpen(t) ==
    /\ pc[t] = "dl_open"
    /\ \/ /\ outFile' = <<>>
          /\ wpos' = [wpos EXCEPT ![t] = 1]
          /\ pc' = [pc EXCEPT ![t] = "dl_write"]
          /\ result' = result
       \/ /\ result' = [result EXCEPT ![t] = "failure"]
          /\ pc' = [pc EXCEPT ![t] = "dl_return"]
          /\ UNCHANGED <<outFile, wpos>>
    /\ UNCHANGED <<schedVars, cfgVars, last_refresh, saved_last_refresh, now,
                   produced_files, published, fetchVars, mergeVars, httpVars, otherVars>>

\* The file after a write of chunk c at offset p (a gap left by another
\* writer's truncation reads as a hole).
WriteAt(f, p, c) ==
    [i \in 1..(IF p > Len(f) THEN p ELSE Len(f)) |->
        IF i = p THEN c ELSE IF i <= Len(f) THEN f[i] ELSE <<"hole", 0>>]

\* DlWrite giving the refresh up when the scheduler has been told to stop.
DlWriteChecksStop(t) ==
    /\ pc[t] = "dl_write"
    /\ IF _stop_event
       THEN /\ pc' = [pc EXCEPT ![t] = "idle"]
            /\ wpos' = [wpos EXCEPT ![t] = 0]
            /\ produced_files' = [produced_files EXCEPT ![t] = <<>>]
            /\ UNCHANGED <<outFile, published, result>>
       ELSE /\ outFile' = WriteAt(outFile, wpos[t], t)
            /\ IF wpos[t] = DocChunks
               THEN /\ published' = [published EXCEPT ![t] = TRUE]
                    /\ pc' = [pc EXCEPT ![t] = "dl_cleanup"]
                    /\ wpos' = [wpos EXCEPT ![t] = 0]
               ELSE /\ wpos' = [wpos EXCEPT ![t] = @ + 1]
                    /\ UNCHANGED <<published, pc>>
            /\ UNCHANGED <<result, produced_files>>
    /\ UNCHANGED <<schedVars, cfgVars, last_refresh, saved_last_refresh, now,
                   fetchVars, mergeVars, httpVars, otherVars>>

\* core.py:114 / 175: the writes of the copy or merge, at the writer's own offset;
\* after the last one the call returns.  A write may fail with an OSError.
DlWrite(t) ==
    /\ pc[t] = "dl_write"
    /\ \/ /\ outFile' = WriteAt(outFile, wpos[t], t)
          /\ IF wpos[t] = DocChunks
             THEN /\ published' = [published EXCEPT ![t] = TRUE]
                  /\ pc' = [pc EXCEPT ![t] = "dl_cleanup"]
                  /\ wpos' = [wpos EXCEPT ![t] = 0]
             ELSE /\ wpos' = [wpos EXCEPT ![t] = @ + 1]
                  /\ UNCHANGED <<published, pc>>
          /\ result' = result
       \/ /\ result' = [result EXCEPT ![t] = "failure"]
          /\ pc' = [pc EXCEPT ![t] = "dl_return"]
          /\ wpos' = [wpos EXCEPT ![t] = 0]
          /\ UNCHANGED <<outFile, published>>
    /\ UNCHANGED <<schedVars, cfgVars, last_refresh, saved_last_refresh, now,
                   produced_files, fetchVars, mergeVars, httpVars, otherVars>>

\* core.py:120
DlCleanup(t) ==
    /\ pc[t] = "dl_cleanup"
    /\ pc' = [pc EXCEPT ![t] = "dl_setlast"]
    /\ UNCHANGED <<schedVars, cfgVars, last_refresh, saved_last_refresh, now, dlVars,
                   fileVars, fetchVars, mergeVars, httpVars, otherVars>>

\* core.py:123
DlSetLast(t) ==
    /\ pc[t] = "dl_setlast"
    /\ last_refresh' = now
    /\ pc' = [pc EXCEPT ![t] = "dl_save"]
    /\ UNCHANGED <<schedVars, cfgVars, saved_last_refresh, now, dlVars, fileVars,
                   fetchVars, mergeVars, httpVars, otherVars>>

\* core.py:124-126: config.save() writes the configuration, then download_epg
\* returns success; if save raises, _do_refresh catches the exception.
DlSave(t) ==
    /\ pc[t] = "dl_save"
    /\ \/ /\ saved_last_refresh' = last_refresh
          /\ result' = [result EXCEPT ![t] = "success"]
       \/ /\ result' = [result EXCEPT ![t] = "error"]
          /\ UNCHANGED saved_last_refresh
    /\ pc' = [pc EXCEPT ![t] = "dl_return"]
    /\ UNCHANGED <<schedVars, cfgVars, last_refresh, now, produced_files,
                   published, fileVars, fetchVars, mergeVars, httpVars, otherVars>>

\* scheduler.py:96-107, 67, 112: _do_refresh reports the outcome and the
\* manager's locals go away; the worker goes on to its sleep, a refresh_now
\* thread ends.
DoRefreshEnd(t) ==
    /\ pc[t] = "dl_return"
    /\ pc' = [pc EXCEPT ![t] = IF t \in WorkerIds THEN "sleep" ELSE "idle"]
    /\ result' = [result EXCEPT ![t] = "none"]
    /\ produced_files' = [produced_files EXCEPT ![t] = <<>>]
    /\ published' = [published EXCEPT ![t] = FALSE]
    /\ UNCHANGED <<schedVars, cfgVars, last_refresh, saved_last_refresh, now,
                   fileVars, fetchVars, mergeVars, httpVars, otherVars>>

Next ==
    \/ start(SpecWorkers)
    \/ StopSignal
    \/ StopJoined
    \/ refresh_now(SpecManuals)
    \/ Tick
    \/ \E w \in SpecWorkers : LoopTop(w) \/ LoopSleep(w)
    \/ \E t \in SpecWorkers \cup SpecManuals :
         \/ DlStart(t) \/ DlLineup(t) \/ DlEspn(t) \/ DlOpen(t) \/ DlWrite(t)
         \/ DlCleanup(t) \/ DlSetLast(t) \/ DlSave(t) \/ DoRefreshEnd(t)

Spec == Init /\ [][Next]_vars

\* scheduler.py:88-107: a step of _do_refresh on thread t
DlStep(t) ==
    \/ DlStart(t) \/ DlLineup(t) \/ DlEspn(t) \/ DlOpen(t) \/ DlWrite(t)
    \/ DlCleanup(t) \/ DlSetLast(t) \/ DlSave(t) \/ DoRefreshEnd(t)

(***************************************************************************)
(* EPGRequestHandler (server.py): the API endpoints                        *)
(***************************************************************************)

\* scheduler.py:114-126 (NoTime stands for None)
get_next_refresh_time ==
    IF ~auto_refresh_enabled THEN NoTime
    ELSE IF last_refresh = NoTime THEN now
    \* fromisoformat raises ValueError
    ELSE IF last_refresh = Garbage THEN now
    \* a naive datetime plus the interval is a naive datetime; nothing is raised
    ELSE IF IsNaive(last_refresh) THEN Naive(Instant(last_refresh) + refresh_interval_hours)
    ELSE last_refresh + refresh_interval_hours

\* scheduler.py:128-137
get_status ==
    [running |-> _running,
     enabled |-> auto_refresh_enabled,
     interval_hours |-> refresh_interval_hours,
     last_refresh |-> last_refresh,
     next_refresh |-> get_next_refresh_time]

\* server.py:107-144: the status document: the configuration, the scheduler's
\* status and the listing of the output directory, each read as it is now.
StatusDocument ==
    [server |-> "running",
     time |-> now,
     config |-> [lineup_ids |-> lineup_ids, espn_plus_enabled |-> espn_plus_enabled],
     scheduler |-> get_status,
     files |-> outFile]

\* The handler of GET /api/status taking a lock that a running refresh holds.
_get_status_locked ==
    /\ \A t \in Threads : ~InRefresh(t)
    /\ response' = StatusDocument
    /\ UNCHANGED <<mgrVars, fetchVars, mergeVars, otherVars>>

\* server.py:70-72, 83-85, 100-105: GET /api/status and GET / send the status
\* document.
_get_status ==
    /\ response' = StatusDocument
    /\ UNCHANGED <<mgrVars, fetchVars, mergeVars, otherVars>>

\* The handler of GET /api/refresh running the refresh itself and answering
\* with its result.
_trigger_refresh_waits(M) ==
    /\ \E m \in M :
         /\ m = NewThread(M)
         /\ pc' = [pc EXCEPT ![m] = "dl_return"]
         /\ result' = [result EXCEPT ![m] = "failure"]
    /\ response' = [status |-> "failure"]
    /\ UNCHANGED <<schedVars, cfgVars, last_refresh, saved_last_refresh, now,
                   produced_files, published, fileVars, fetchVars, mergeVars, otherVars>>

\* server.py:78-80, 146-152: GET /api/refresh calls scheduler.refresh_now(), which
\* starts _do_refresh on a new thread, and sends the acknowledgment.
_trigger_refresh(M) ==
    /\ \E m \in M :
         /\ m = NewThread(M)
         /\ pc' = [pc EXCEPT ![m] = "dl_start"]
    /\ response' = [status |-> "refresh_started"]
    /\ UNCHANGED <<schedVars, cfgVars, last_refresh, saved_last_refresh, now, dlVars,
                   fileVars, fetchVars, mergeVars, otherVars>>

\* The server of one lineup with auto-refresh enabled and no refresh made yet.
InitServe ==
    /\ Init
    /\ lineup_ids = 1
    /\ ~espn_plus_enabled
    /\ auto_refresh_enabled
    /\ last_refresh = NoTime

\* The server's requests and its scheduler's threads, at one moment of time.
NextServe ==
    \/ start(SpecWorkers)
    \/ StopSignal
    \/ StopJoined
    \/ _trigger_refresh(SpecManuals)
    \/ _get_status
    \/ \E w \in SpecWorkers : LoopTop(w) \/ LoopSleep(w)
    \/ \E t \in SpecWorkers \cup SpecManuals : DlStep(t)

SpecServe == InitServe /\ [][NextServe]_vars

(***************************************************************************)
(* Claims about the scheduler and download_epg, checked under Spec         *)
(***************************************************************************)

\* A thread is between its open of the output path and its last write to it.
Writing(t) == pc[t] = "dl_write"

\* C1: at most one refresh (a run of download_epg started by the worker loop or by
\* refresh_now) is executing at any time, so that no two refreshes are writing
\* the output path at overlapping times.
C1_OneRefreshAtATime ==
    /\ Cardinality({t \in Threads : Writing(t)}) <= 1
    /\ (\E t \in Threads : Writing(t)) => Cardinality({t \in Threads : InRefresh(t)}) <= 1

\* C2: a reader of the output path sees, at any moment, the complete previous
\* document or a complete new one, never an empty or partly written file.
C2_ReaderSeesCompleteDoc == outFile = PrevDoc \/ \E t \in Threads : outFile = Doc(t)

\* C3: last_refresh is assigned, and then saved, only by a refresh whose copy or
\* merge to the output path has already returned: every step that changes
\* config.last_refresh is the step at core.py:123 of a thread whose publish is
\* done, and every step that changes the saved value is that thread's save.
C3_LastRefreshAfterPublish ==
    [][ /\ last_refresh' # last_refresh =>
             \E t \in Threads : pc[t] = "dl_setlast" /\ published[t] /\ pc'[t] = "dl_save"
        /\ saved_last_refresh' # saved_last_refresh =>
             \E t \in Threads : pc[t] = "dl_save" /\ published[t]
                                /\ saved_last_refresh' = last_refresh ]_vars

\* C3 witness: a refresh has published, stamped last_refresh and saved it.
C3_Witness ==
    \E t \in Threads :
        /\ pc[t] = "dl_return" /\ result[t] = "success" /\ published[t]
        /\ last_refresh = now /\ now > 0 /\ saved_last_refresh = last_refresh

\* Thread t takes this step.
Steps(t) ==
    \/ pc'[t] # pc[t]
    \/ produced_files'[t] # produced_files[t]
    \/ wpos'[t] # wpos[t]

\* What a refresh publishes and records.
PublishedState == <<outFile, last_refresh, saved_last_refresh>>

\* download_epg has returned failure because a lineup's fetch failed: the loop
\* over the lineups ended before its last lineup was appended.
LineupFailed(t) ==
    pc[t] = "dl_return" /\ result[t] = "failure" /\ Len(produced_files[t]) < lineup_ids

\* C17: when the fetch of a configured lineup fails or raises, download_epg
\* returns failure at once: that step and the return leave the output path and
\* last_refresh as they were, nothing is published, and no later lineup nor
\* ESPN+ is fetched.
C17_RequiredFailureAborts ==
    /\ [](\A t \in Threads : LineupFailed(t) => ~published[t] /\ 0 \notin
                                 {produced_files[t][i] : i \in 1..Len(produced_files[t])})
    /\ [][ \A t \in Threads :
             /\ (pc[t] = "dl_lineup" /\ Steps(t)
                    /\ produced_files'[t] = produced_files[t]) =>
                  /\ pc'[t] = "dl_return" /\ result'[t] = "failure"
                  /\ PublishedState' = PublishedState
             /\ (LineupFailed(t) /\ Steps(t)) =>
                  /\ pc'[t] \in {"sleep", "idle"}
                  /\ PublishedState' = PublishedState ]_vars

\* C17 witness: the lineup failed with ESPN+ enabled; the run has returned
\* failure with nothing produced and the previous document in place.
C17_Witness ==
    \E t \in Threads :
        /\ LineupFailed(t) /\ espn_plus_enabled
        /\ produced_files[t] = <<>> /\ outFile = PrevDoc

\* A run in which every lineup was fetched and ESPN+, enabled, gave no fragment.
EspnSkipped(t) ==
    /\ espn_plus_enabled /\ lineup_ids >= 1
    /\ pc[t] \in {"dl_open", "dl_write", "dl_cleanup", "dl_setlast", "dl_save", "dl_return"}
    /\ produced_files[t] = [i \in 1..lineup_ids |-> i]

\* C18: a failure of the ESPN+ source does not end the refresh: with a fragment
\* of another source produced, the step goes on to the copy / merge, and the run
\* that has published returns success (unless config.save() raised).
C18_OptionalFailureSkipped ==
    /\ [](\A t \in Threads :
            (EspnSkipped(t) /\ pc[t] = "dl_return" /\ published[t]) =>
                result[t] \in {"success", "error"})
    /\ [][ \A t \in Threads :
             (pc[t] = "dl_espn" /\ Steps(t) /\ espn_plus_enabled
                 /\ produced_files[t] # <<>>
                 /\ produced_files'[t] = produced_files[t]) =>
               /\ pc'[t] = "dl_open" /\ result'[t] = "none"
               /\ EspnSkipped(t)' ]_vars

\* C18 witness: the lineup was fetched, ESPN+ failed, and the run has published
\* the lineup's document and returned success.
C18_Witness ==
    \E t \in Threads :
        /\ EspnSkipped(t) /\ pc[t] = "dl_return" /\ result[t] = "success"
        /\ published[t] /\ outFile = Doc(t) /\ last_refresh = now

\* pc values of download_epg before the copy / merge.
SourcePcs == {"dl_start", "dl_lineup", "dl_espn"}

\* C19: a run in which no source has produced a fragment returns failure when
\* its sources are done, and none of its steps, the return included, changes
\* the output path, last_refresh or the saved configuration.
C19_NoFragmentFails ==
    [][ \A t \in Threads :
          (pc[t] \in SourcePcs \cup {"dl_return"} /\ Steps(t)
              /\ produced_files[t] = <<>> /\ produced_files'[t] = <<>>) =>
            /\ PublishedState' = PublishedState
            /\ ~published'[t]
            /\ (pc[t] \in SourcePcs /\ pc'[t] \notin SourcePcs) =>
                   pc'[t] = "dl_return" /\ result'[t] = "failure" ]_vars

\* C19 witness: no lineup is configured and ESPN+, enabled, failed: the run has
\* returned failure, the document and last_refresh being those of before.
C19_Witness ==
    \E t \in Threads :
        /\ pc[t] = "dl_return" /\ result[t] = "failure" /\ produced_files[t] = <<>>
        /\ lineup_ids = 0 /\ espn_plus_enabled
        /\ outFile = PrevDoc /\ last_refresh = 0 /\ now > 0

\* download_epg has returned failure from the copy / merge: its sources were
\* done and had produced a fragment.
PublishFailed(t) ==
    /\ pc[t] = "dl_return" /\ result[t] = "failure"
    /\ produced_files[t] # <<>> /\ Len(produced_files[t]) >= lineup_ids

\* C20: when the copy or the merge write fails, the output path still holds a
\* complete document (the one it held before), not an empty or partly written
\* file.
C20_PublishFailureKeepsDocument ==
    \A t \in Threads :
        PublishFailed(t) =>
            \E w \in Threads \cup {<<"prev", 0>>} : outFile = Doc(w)

C22_OncePerDueWindow ==
    \A w \in WorkerIds :
        (pc[w] = "dl_return" /\ now = 0) => ~_should_refresh

\* The scheduler with every worker start() may create, and no refresh_now:
\* start() and stop() called again and again while workers run.
NextRestart ==
    \/ start(WorkerIds)
    \/ StopSignal
    \/ StopJoined
    \/ Tick
    \/ \E w \in WorkerIds :
         \/ LoopTop(w) \/ LoopSleep(w)
         \/ DlStart(w) \/ DlLineup(w) \/ DlEspn(w) \/ DlOpen(w) \/ DlWrite(w)
         \/ DlCleanup(w) \/ DlSetLast(w) \/ DlSave(w) \/ DoRefreshEnd(w)

SpecRestart == Init /\ [][NextRestart]_vars

\* A worker is in its loop, outside _do_refresh: at the loop head or sleeping.
Looping(w) == pc[w] \in {"loop_top", "sleep"}

\* C23: the scheduler never has two periodic workers looping: whatever the
\* start() and stop() calls and the worker steps, at most one worker is in the
\* loop with the stop event clear.
C23_OneWorkerLoop ==
    _stop_event \/ Cardinality({w \in WorkerIds : Looping(w)}) <= 1

\* C24: stop() on a running scheduler sets the stop event and waits for the worker;
\* the wait can always end, whatever the worker is doing, and when it ends
\* is_running is False and the worker is left as it was.  stop() on a scheduler
\* that is not running changes nothing.
C24_StopBounded ==
    /\ [](ctl = "joining" => ENABLED StopJoined)
    /\ []((ctl = "ready" /\ ~_running) => ~ENABLED <<StopSignal>>_vars)
    /\ [][ /\ (ctl = "ready" /\ ctl' = "joining") => (_running /\ _stop_event')
           /\ (ctl = "joining" /\ ctl' = "ready") => (~_running' /\ pc' = pc) ]_vars

\* C24 witness: stop() has returned with is_running False while the worker it
\* signalled is still writing the output of a refresh.
C24_Witness ==
    /\ ctl = "ready"
    /\ ~_running
    /\ _stop_event
    /\ _thread # NoThread
    /\ pc[_thread] = "dl_write"

\* C25: a refresh in flight can always take its next step, whether or not the
\* scheduler is stopping or stopped; a thread leaves its refresh only at the return
\* of download_epg, with success or failure; and no step of stop() changes the
\* position or the result of a thread in a refresh.
C25_StopNeverAborts ==
    /\ [](\A t \in Threads : InRefresh(t) => ENABLED DlStep(t))
    /\ [][\A t \in Threads :
            /\ (InRefresh(t) /\ pc'[t] \notin DlPcs) =>
                   (pc[t] = "dl_return" /\ result[t] \in {"success", "failure", "error"})
            /\ (InRefresh(t) /\ ctl' # ctl) =>
                   (pc'[t] = pc[t] /\ result'[t] = result[t]) ]_vars

\* C25 witness: a refresh that was in flight when stop() was called has returned
\* success after stop() returned.
C25_Witness ==
    /\ ctl = "ready"
    /\ ~_running
    /\ _stop_event
    /\ \E t \in Threads : pc[t] = "dl_return" /\ result[t] = "success"

C27_TriggerAsync ==
    /\ [](NewThread(SpecManuals) # NoThread => ENABLED _trigger_refresh(SpecManuals))
    /\ [][\A m \in ManualIds :
            (pc[m] = "idle" /\ pc'[m] # "idle") =>
                /\ pc'[m] = "dl_start"
                /\ result'[m] = "none"
                /\ \A t \in Threads \ {m} : pc'[t] = pc[t]
                /\ schedVars' = schedVars
                /\ response' = [status |-> "refresh_started"] ]_vars
    /\ []("status" \in DOMAIN response =>
              response \in {NoResponse, [status |-> "refresh_started"]})

\* C27 witness: GET /api/refresh has been acknowledged and its refresh is at its
\* first step, while the periodic worker is in the middle of a refresh of its own.
C27_Witness ==
    /\ response = [status |-> "refresh_started"]
    /\ \E m \in ManualIds : pc[m] = "dl_start" /\ result[m] = "none"
    /\ \E w \in WorkerIds : Writing(w)

\* C28: the status handler can run in every state, whatever step a scheduled or
\* on-demand refresh is at, and the step that answers sends the configuration, the
\* scheduler's status and the file listing as they are at that moment and changes
\* nothing of the scheduler or the manager.
C28_StatusNeverWaits ==
    /\ [](ENABLED _get_status)
    /\ [][("server" \in DOMAIN response' /\ response' # response) =>
              (response' = StatusDocument /\ mgrVars' = mgrVars) ]_vars

\* C28 witness: a status answer that lists the output file as it is in the middle
\* of a refresh's write: shorter than a document, with its writer about to append.
C28_Witness ==
    /\ "server" \in DOMAIN response
    /\ response.files = outFile
    /\ Len(outFile) < DocChunks
    /\ \E t \in Threads : Writing(t) /\ wpos[t] = Len(outFile) + 1

(***************************************************************************)
(* fetch_zap2it_epg (zap2it.py): one call                                  *)
(***************************************************************************)

\* zap2it.py:354, 356
chunk_hours == 6
max_retries == 3

\* Bound: the largest timespan_hours tried.
MaxHours == 13

\* Status codes a window request may be answered with.
StatusCodes == {200, 404, 429, 500}
\* The bodies of a 200 response: not JSON, or JSON with these channelIds.
BadJson == "badjson"
Bodies == {{}, {"c1"}}
\* random.uniform(0, 0.5), in tenths of a second: its two ends.
Jitters == {0, 5}
BaseTimes == {1000}
DelayChoices == {0, 2}
PostalCodes == {"", "90210"}

\* Lineup IDs, as sequences of characters.
CableLineup == <<"U","S","A","-","N","Y","3","1","-","X">>
OtaLineup == <<"U","S","A","-","O","T","A","9","0","2","1","0">>
LocalLineup == <<"L","o","c","a","l","B","r","o","a","d","c","a","s","t">>
StreamLineup == <<"u","s","a","-","y","t","t","v","-","x">>
LineupIds == {<<>>, CableLineup, OtaLineup, LocalLineup, StreamLineup}

\* zap2it.py:34
STREAMING_LINEUPS ==
    { <<"H","U","L","U","T","V">>, <<"Y","T","T","V">>, <<"F","U","B","O","T","V">>,
      <<"S","L","I","N","G">>, <<"D","I","R","E","C","T","V","S","T","R">>,
      <<"V","I","D","G","O">>, <<"F","R","N","D","L","Y","T","V">>,
      <<"P","H","I","L","O">> }

LowerCase == <<"a","b","c","d","e","f","g","h","i","j","k","l","m",
               "n","o","p","q","r","s","t","u","v","w","x","y","z">>
UpperCase == <<"A","B","C","D","E","F","G","H","I","J","K","L","M",
               "N","O","P","Q","R","S","T","U","V","W","X","Y","Z">>

\* str.upper()
UpperChar(c) ==
    IF \E i \in 1..26 : LowerCase[i] = c
    THEN UpperCase[CHOOSE i \in 1..26 : LowerCase[i] = c]
    ELSE c
upper(str) == [i \in 1..Len(str) |-> UpperChar(str[i])]

\* sub in str
Contains(str, sub) ==
    \E i \in 0..(Len(str) - Len(sub)) : SubSeq(str, i + 1, i + Len(sub)) = sub

\* zap2it.py:156-159
_is_ota(lid) ==
    LET str == upper(lid)
    IN \/ Contains(str, <<"O","T","A">>)
       \/ Contains(str, <<"L","O","C","A","L","B","R","O","A","D","C","A","S","T">>)

IsUpperLetter(c) == \E i \in 1..26 : UpperCase[i] = c

\* re.match(r"^[A-Z]{3}-([^-]+)-", str): the positions at which group 1 may
\* end; there is at most one, the character before the second dash.
GroupEnds(str) ==
    {j \in 5..(Len(str) - 1) :
        /\ \A i \in 1..3 : IsUpperLetter(str[i])
        /\ str[4] = "-"
        /\ \A i \in 5..j : str[i] # "-"
        /\ str[j + 1] = "-"}

\* _is_streaming without the upper-casing of the lineup ID.
_is_streaming_case(lid) ==
    IF GroupEnds(lid) # {}
    THEN SubSeq(lid, 5, CHOOSE j \in GroupEnds(lid) : TRUE) \in STREAMING_LINEUPS
    ELSE FALSE

\* zap2it.py:162-166
_is_streaming(lid) ==
    LET str == upper(lid)
    IN IF GroupEnds(str) # {}
       THEN SubSeq(str, 5, CHOOSE j \in GroupEnds(str) : TRUE) \in STREAMING_LINEUPS
       ELSE FALSE

\* zap2it.py:169-171
_needs_postal(lid) == _is_ota(lid) \/ _is_streaming(lid)

\* offsets with the end of the range included: range(0, timespan_hours + 1, ...).
offsetsInclusive(hours) ==
    LET starts == {o \in 0..hours : o % chunk_hours = 0}
    IN [k \in 1..Cardinality(starts) |-> (k - 1) * chunk_hours]

\* zap2it.py:355: list(range(0, timespan_hours, chunk_hours))
offsets(hours) ==
    LET starts == {o \in 0..(hours - 1) : o % chunk_hours = 0}
    IN [k \in 1..Cardinality(starts) |-> (k - 1) * chunk_hours]

\* zap2it.py:359: the time parameter of the window at this offset
WindowTime(offset) == base_time + offset * 3600

Min(a, b) == IF a < b THEN a ELSE b

\* Backoff with the exponent counting down: 2 ** (max_retries - attempt).
BackoffShrinking(cap, att, jitter) == Min(cap, 2 ^ (max_retries - att)) * 10 + jitter

\* zap2it.py:374, 408: min(cap, 2 ** (attempt - 1)) + random.uniform(0, 0.5),
\* in tenths of a second
Backoff(cap, att, jitter) == Min(cap, 2 ^ (att - 1)) * 10 + jitter

\* zap2it.py:406
IsRetryStatus(code) == code = 429 \/ (500 <= code /\ code < 600)

\* The scheduler and the manager at rest: their state in SpecFetch.
MgrIdle ==
    /\ lineup_ids = 0
    /\ espn_plus_enabled = FALSE
    /\ auto_refresh_enabled = FALSE
    /\ refresh_interval_hours = 1
    /\ last_refresh = NoTime
    /\ saved_last_refresh = NoTime
    /\ now = 0
    /\ _running = FALSE
    /\ _stop_event = FALSE
    /\ _thread = NoThread
    /\ ctl = "ready"
    /\ pc = [t \in Threads |-> "idle"]
    /\ produced_files = [t \in Threads |-> <<>>]
    /\ published = [t \in Threads |-> FALSE]
    /\ result = [t \in Threads |-> "none"]
    /\ outFile = PrevDoc
    /\ wpos = [t \in Threads |-> 0]

\* A call of fetch_zap2it_epg with its arguments.
InitFetch ==
    /\ MgrIdle
    /\ MergeIdle
    /\ HttpIdle
    /\ OtherIdle
    /\ lineup_id \in LineupIds
    /\ postal_code \in PostalCodes
    /\ timespan_hours \in 0..MaxHours
    /\ delay_seconds \in DelayChoices
    /\ base_time \in BaseTimes
    /\ fpc = "start"
    /\ fidx = 0
    /\ attempt = 0
    /\ nNet = 0
    /\ nTrans = 0
    /\ sleeps = <<>>
    /\ status = 0
    /\ reqs = <<>>
    /\ wtime = <<>>
    /\ wres = <<>>
    /\ delayed = <<>>
    /\ channels_map = {}
    /\ warmups = 0
    /\ file_written = FALSE
    /\ fresult = "none"

\* zap2it.py:321-326: the checks made before anything is requested.
FetchValidate ==
    /\ fpc = "start"
    /\ IF lineup_id = <<>>
       THEN fresult' = "lineup_required" /\ fpc' = "done"
       ELSE IF _needs_postal(lineup_id) /\ postal_code = ""
       THEN fresult' = "postal_required" /\ fpc' = "done"
       ELSE fresult' = fresult /\ fpc' = "warmup"
    /\ UNCHANGED <<mgrVars, mergeVars, httpVars, otherVars, lineup_id, postal_code, timespan_hours, delay_seconds,
                   base_time, fidx, attempt, nNet, nTrans, sleeps, status, reqs, wtime,
                   wres, delayed, channels_map, warmups, file_written>>

\* zap2it.py:358-362: the loop head for window k (0-based), or the end of the loop.
BeginWindow(k) ==
    IF k < Len(offsets(timespan_hours))
    THEN /\ fpc' = "request"
         /\ fidx' = k
         /\ attempt' = 0
         /\ nNet' = 0
         /\ nTrans' = 0
         /\ sleeps' = <<>>
         /\ status' = 0
         /\ reqs' = Append(reqs, 0)
         /\ wtime' = Append(wtime, WindowTime(offsets(timespan_hours)[k + 1]))
    ELSE /\ fpc' = "finish"
         /\ UNCHANGED <<fidx, attempt, nNet, nTrans, sleeps, status, reqs, wtime>>

\* zap2it.py:337-356: the session warm-up GET (an exception of it is swallowed),
\* then the set-up of the window loop.
FetchWarmup ==
    /\ fpc = "warmup"
    /\ warmups' = warmups + 1
    /\ channels_map' = {}
    /\ BeginWindow(0)
    /\ UNCHANGED <<mgrVars, mergeVars, httpVars, otherVars, lineup_id, postal_code, timespan_hours, delay_seconds,
                   base_time, wres, delayed, file_written, fresult>>

\* zap2it.py:364, 371: one more attempt, one more GET of this window
Attempt ==
    /\ attempt' = attempt + 1
    /\ reqs' = [reqs EXCEPT ![Len(reqs)] = @ + 1]

\* FetchNetErr leaving the window, as the 429 / 5xx branch does, when the retries
\* are used up.
FetchNetErrSkips ==
    /\ fpc = "request"
    /\ Attempt
    /\ nNet' = nNet + 1
    /\ IF attempt' <= max_retries
       THEN /\ \E j \in Jitters : sleeps' = Append(sleeps, Backoff(30, attempt', j))
            /\ UNCHANGED <<fpc, wres>>
       ELSE /\ wres' = Append(wres, "neterr")
            /\ fpc' = "window_end"
            /\ UNCHANGED sleeps
    /\ UNCHANGED <<mgrVars, mergeVars, httpVars, otherVars, lineup_id, postal_code, timespan_hours, delay_seconds,
                   base_time, fidx, nTrans, status, wtime, delayed, channels_map,
                   warmups, file_written, fresult>>

\* zap2it.py:372-377: the GET raised requests.RequestException.
FetchNetErr ==
    /\ fpc = "request"
    /\ Attempt
    /\ nNet' = nNet + 1
    /\ IF attempt' <= max_retries
       THEN /\ \E j \in Jitters : sleeps' = Append(sleeps, Backoff(30, attempt', j))
            /\ UNCHANGED <<fpc, wres, fresult>>
       ELSE /\ fresult' = "network_error"
            /\ wres' = Append(wres, "neterr")
            /\ fpc' = "done"
            /\ UNCHANGED sleeps
    /\ UNCHANGED <<mgrVars, mergeVars, httpVars, otherVars, lineup_id, postal_code, timespan_hours, delay_seconds,
                   base_time, fidx, nTrans, status, wtime, delayed, channels_map,
                   warmups, file_written>>

\* zap2it.py:379-404: a 200 response whose body parses; its channels are
\* accumulated and the window is done.
FetchOk ==
    /\ fpc = "request"
    /\ Attempt
    /\ status' = 200
    /\ \E body \in Bodies : channels_map' = channels_map \cup body
    /\ wres' = Append(wres, "ok")
    /\ fpc' = "window_end"
    /\ UNCHANGED <<mgrVars, mergeVars, httpVars, otherVars, lineup_id, postal_code, timespan_hours, delay_seconds,
                   base_time, fidx, nNet, nTrans, sleeps, wtime, delayed, warmups,
                   file_written, fresult>>

\* FetchBadJson leaving the window instead of returning.
FetchBadJsonSkips ==
    /\ fpc = "request"
    /\ Attempt
    /\ status' = 200
    /\ wres' = Append(wres, BadJson)
    /\ fpc' = "window_end"
    /\ UNCHANGED <<mgrVars, mergeVars, httpVars, otherVars, lineup_id, postal_code, timespan_hours, delay_seconds,
                   base_time, fidx, nNet, nTrans, sleeps, wtime, delayed, channels_map,
                   warmups, file_written, fresult>>

\* zap2it.py:379-383: a 200 response whose body is not JSON.
FetchBadJson ==
    /\ fpc = "request"
    /\ Attempt
    /\ status' = 200
    /\ wres' = Append(wres, BadJson)
    /\ fresult' = "invalid_json"
    /\ fpc' = "done"
    /\ UNCHANGED <<mgrVars, mergeVars, httpVars, otherVars, lineup_id, postal_code, timespan_hours, delay_seconds,
                   base_time, fidx, nNet, nTrans, sleeps, wtime, delayed, channels_map,
                   warmups, file_written>>

\* FetchTransient retrying once more than max_retries allows.
FetchTransientExtraRetry ==
    /\ fpc = "request"
    /\ Attempt
    /\ \E code \in StatusCodes :
         /\ code # 200
         /\ IsRetryStatus(code)
         /\ status' = code
    /\ nTrans' = nTrans + 1
    /\ IF attempt' <= max_retries + 1
       THEN /\ \E j \in Jitters : sleeps' = Append(sleeps, Backoff(60, attempt', j))
            /\ UNCHANGED <<fpc, wres>>
       ELSE /\ wres' = Append(wres, "transient")
            /\ fpc' = "window_end"
            /\ UNCHANGED sleeps
    /\ UNCHANGED <<mgrVars, mergeVars, httpVars, otherVars, lineup_id, postal_code, timespan_hours, delay_seconds,
                   base_time, fidx, nNet, wtime, delayed, channels_map, warmups,
                   file_written, fresult>>

\* zap2it.py:406-411: a 429 or 5xx response: sleep and retry, or, with the
\* retries used up, leave the window.
FetchTransient ==
    /\ fpc = "request"
    /\ Attempt
    /\ \E code \in StatusCodes :
         /\ code # 200
         /\ IsRetryStatus(code)
         /\ status' = code
    /\ nTrans' = nTrans + 1
    /\ IF attempt' <= max_retries
       THEN /\ \E j \in Jitters : sleeps' = Append(sleeps, Backoff(60, attempt', j))
            /\ UNCHANGED <<fpc, wres>>
       ELSE /\ wres' = Append(wres, "transient")
            /\ fpc' = "window_end"
            /\ UNCHANGED sleeps
    /\ UNCHANGED <<mgrVars, mergeVars, httpVars, otherVars, lineup_id, postal_code, timespan_hours, delay_seconds,
                   base_time, fidx, nNet, wtime, delayed, channels_map, warmups,
                   file_written, fresult>>

\* zap2it.py:412-413: any other status: leave the window.
FetchOtherStatus ==
    /\ fpc = "request"
    /\ Attempt
    /\ \E code \in StatusCodes :
         /\ code # 200
         /\ ~IsRetryStatus(code)
         /\ status' = code
    /\ wres' = Append(wres, "status")
    /\ fpc' = "window_end"
    /\ UNCHANGED <<mgrVars, mergeVars, httpVars, otherVars, lineup_id, postal_code, timespan_hours, delay_seconds,
                   base_time, fidx, nNet, nTrans, sleeps, wtime, delayed, channels_map,
                   warmups, file_written, fresult>>

\* FetchWindowEnd sleeping the delay after every window, the last one too.
FetchWindowEndAlways ==
    /\ fpc = "window_end"
    /\ delayed' = IF delay_seconds > 0 THEN Append(delayed, fidx) ELSE delayed
    /\ BeginWindow(fidx + 1)
    /\ UNCHANGED <<mgrVars, mergeVars, httpVars, otherVars, lineup_id, postal_code, timespan_hours, delay_seconds,
                   base_time, wres, channels_map, warmups, file_written, fresult>>

\* zap2it.py:415-416, 358: the inter-chunk delay, then the next window.
FetchWindowEnd ==
    /\ fpc = "window_end"
    /\ delayed' = IF delay_seconds > 0 /\ fidx < Len(offsets(timespan_hours)) - 1
                  THEN Append(delayed, fidx) ELSE delayed
    /\ BeginWindow(fidx + 1)
    /\ UNCHANGED <<mgrVars, mergeVars, httpVars, otherVars, lineup_id, postal_code, timespan_hours, delay_seconds,
                   base_time, wres, channels_map, warmups, file_written, fresult>>

\* FetchFinish without the check for an empty channels_map: the fragment is
\* written and success returned whatever was accumulated.
FetchFinishAlwaysWrites ==
    /\ fpc = "finish"
    /\ fresult' = "ok"
    /\ file_written' = TRUE
    /\ fpc' = "done"
    /\ UNCHANGED <<mgrVars, mergeVars, httpVars, otherVars, lineup_id, postal_code, timespan_hours, delay_seconds,
                   base_time, fidx, attempt, nNet, nTrans, sleeps, status, reqs, wtime,
                   wres, delayed, channels_map, warmups>>

\* zap2it.py:418-439: no channel is a failure; otherwise the fragment is written.
FetchFinish ==
    /\ fpc = "finish"
    /\ IF channels_map = {}
       THEN fresult' = "no_channels" /\ file_written' = FALSE
       ELSE fresult' = "ok" /\ file_written' = TRUE
    /\ fpc' = "done"
    /\ UNCHANGED <<mgrVars, mergeVars, httpVars, otherVars, lineup_id, postal_code, timespan_hours, delay_seconds,
                   base_time, fidx, attempt, nNet, nTrans, sleeps, status, reqs, wtime,
                   wres, delayed, channels_map, warmups>>

NextFetch ==
    \/ FetchValidate
    \/ FetchWarmup
    \/ FetchNetErr
    \/ FetchOk
    \/ FetchBadJson
    \/ FetchTransient
    \/ FetchOtherStatus
    \/ FetchWindowEnd
    \/ FetchFinish

SpecFetch == InitFetch /\ [][NextFetch]_vars

(***************************************************************************)
(* Claims about fetch_zap2it_epg, checked under SpecFetch                  *)
(***************************************************************************)

NumWindows == Len(offsets(timespan_hours))
Failed == fresult \notin {"none", "ok"}

\* C4: once a window has used up its retries on 429 / 5xx responses, no further
\* window is requested and the fetch does not return success.
C4_TransientExhaustedAborts ==
    \A w \in 1..Len(wres) :
        wres[w] = "transient" => Len(reqs) = w /\ fresult # "ok" /\ (fpc = "done" => Failed)

\* C5: once a window was answered with a non-transient status (not 200, 429 or
\* 5xx), no later window is requested and the fetch does not return success.
C5_OtherStatusAborts ==
    \A w \in 1..Len(wres) :
        wres[w] = "status" => Len(reqs) = w /\ fresult # "ok" /\ (fpc = "done" => Failed)

\* C6: a 200 response that is not JSON ends the fetch at once with the invalid
\* response failure: no further GET of that window or of a later one, and no
\* fragment file.
C6_BadJsonAborts ==
    \A w \in 1..Len(wres) :
        wres[w] = BadJson =>
            /\ fpc = "done" /\ fresult = "invalid_json"
            /\ Len(reqs) = w /\ reqs[w] = attempt
            /\ ~file_written

\* C6 witness: the bad body came after a window that had delivered channels and
\* before the last window.
C6_Witness ==
    /\ fpc = "done" /\ fresult = "invalid_json"
    /\ Len(wres) = 2 /\ wres[2] = BadJson /\ NumWindows = 3 /\ channels_map # {}

\* C7: a window whose attempts end in a network error with the retries used up
\* (all max_retries + 1 attempts raising, in particular) makes the fetch return
\* the network error failure, and no later window is requested.
C7_NetworkErrorAborts ==
    /\ \A w \in 1..Len(wres) :
          wres[w] = "neterr" =>
              /\ fpc = "done" /\ fresult = "network_error"
              /\ Len(reqs) = w /\ reqs[w] = max_retries + 1
              /\ ~file_written
    /\ nNet = max_retries + 1 => Len(wres) = fidx + 1 /\ wres[fidx + 1] = "neterr"

\* C7 witness: every attempt of a window that is not the last raised.
C7_Witness ==
    /\ fpc = "done" /\ fresult = "network_error"
    /\ nNet = max_retries + 1 /\ nTrans = 0 /\ Len(reqs) < NumWindows

NonDecreasing(seq) == \A i \in 1..(Len(seq) - 1) : seq[i] <= seq[i + 1]

\* C8: a window answered 429 / 5xx k >= 1 times and then 200 (with a body that
\* parses) got exactly k + 1 GETs, its k backoff sleeps are non-decreasing, and
\* the fetch goes on; when every window ended that way or at once, and a channel
\* was delivered, the fetch returns success and writes the fragment.
C8_RetryThenSuccess ==
    /\ (fpc \in {"window_end", "finish", "done"} /\ status = 200 /\ nNet = 0
            /\ nTrans >= 1 /\ wres[Len(wres)] = "ok") =>
          /\ nTrans <= max_retries
          /\ reqs[Len(reqs)] = nTrans + 1
          /\ Len(sleeps) = nTrans
          /\ NonDecreasing(sleeps)
          /\ (fpc # "done" => fresult = "none")
    /\ (fpc = "done" /\ Len(wres) = NumWindows /\ channels_map # {}
            /\ (\A w \in 1..Len(wres) : wres[w] = "ok")
            /\ (\E w \in 1..Len(reqs) : reqs[w] > 1)) =>
          fresult = "ok" /\ file_written

\* C8 witness: the spec's case, two 5xx / 429 answers and then a 200, in a fetch
\* that succeeded.
C8_Witness ==
    /\ fpc = "done" /\ fresult = "ok" /\ Len(wres) = 2
    /\ nTrans = 2 /\ nNet = 0 /\ status = 200 /\ reqs[2] = 3 /\ Len(sleeps) = 2

CeilDiv(a, b) == (a + b - 1) \div b

\* C9: with timespan_hours > 0 and every window succeeding on its first attempt,
\* exactly ceil(timespan_hours / chunk_hours) window requests are issued, one per
\* window, window k (from 0) anchored at base_time + k * chunk_hours hours.
C9_WindowCount ==
    (fpc = "done" /\ fresult \in {"ok", "no_channels"} /\ timespan_hours > 0
        /\ \A w \in 1..Len(wres) : wres[w] = "ok" /\ reqs[w] = 1) =>
      /\ Len(reqs) = CeilDiv(timespan_hours, chunk_hours)
      /\ Len(wres) = Len(reqs)
      /\ \A k \in 1..Len(wtime) : wtime[k] = base_time + (k - 1) * chunk_hours * 3600

\* C9 witness: a timespan that is a multiple of chunk_hours, fetched in two
\* first-attempt windows.
C9_Witness ==
    /\ fpc = "done" /\ fresult = "ok" /\ timespan_hours = 2 * chunk_hours
    /\ reqs = <<1, 1>> /\ wres = <<"ok", "ok">>

\* The lineups of LineupIds that need a postal code: OTA, LocalBroadcast, and a
\* streaming service.
NeedsLocalityHint == lineup_id \in {OtaLineup, LocalLineup, StreamLineup}

\* C10: with an empty lineup ID, or a lineup that needs a postal code and none
\* given, the fetch returns failure without any HTTP request, the warm-up GET
\* included.
C10_FailFast ==
    (lineup_id = <<>> \/ (NeedsLocalityHint /\ postal_code = "")) =>
      /\ warmups = 0 /\ reqs = <<>> /\ ~file_written
      /\ fpc \in {"start", "done"}
      /\ fpc = "done" => fresult \in {"lineup_required", "postal_required"}

\* C10 witness: a lower-case streaming lineup without a postal code was refused.
C10_Witness ==
    /\ fpc = "done" /\ fresult = "postal_required"
    /\ lineup_id = StreamLineup /\ postal_code = ""

\* C11: when the window loop has run to its end (every window left by a parsed
\* 200 or skipped, none returning early) and no channel was accumulated, the
\* fetch returns the no-data failure and writes no fragment file.
C11_NoChannelsFails ==
    (fpc = "done" /\ warmups = 1 /\ Len(wres) = NumWindows /\ channels_map = {}
        /\ \A w \in 1..Len(wres) : wres[w] \in {"ok", "transient", "status"}) =>
      fresult = "no_channels" /\ ~file_written

\* C11 witness: two windows answered 200 with a body that has no channel.
C11_Witness ==
    /\ fpc = "done" /\ fresult = "no_channels" /\ ~file_written
    /\ NumWindows = 2 /\ wres = <<"ok", "ok">> /\ reqs = <<1, 1>> /\ channels_map = {}

\* C29: the inter-chunk delay has been slept, when delay_seconds > 0, once before
\* every window begun after the first, in the order of the windows, and at no
\* other point: a retry begins no window, and after the last window none begins.
C29_DelayBetweenWindows ==
    delayed = IF delay_seconds > 0 /\ Len(reqs) > 0
              THEN [i \in 1..(Len(reqs) - 1) |-> i - 1]
              ELSE <<>>

\* C29 witness: three windows with a delay: the first skipped on a status that is
\* not retried, the second answered after a retry, and the delay slept after the
\* first and the second only.
C29_Witness ==
    /\ fpc = "done" /\ delay_seconds > 0 /\ NumWindows = 3
    /\ wres = <<"status", "ok", "ok">>
    /\ reqs[2] = 2
    /\ delayed = <<0, 1>>

\* The window GETs issued so far.
TotalRequests ==
    LET RECURSIVE SumTo(_)
        SumTo(n) == IF n = 0 THEN 0 ELSE reqs[n] + SumTo(n - 1)
    IN SumTo(Len(reqs))

\* What is left of the call: the windows not begun and the attempts left in the
\* current one.
Variant ==
    LET W == max_retries + 3
        N == CeilDiv(timespan_hours, chunk_hours)
    IN CASE fpc = "start" -> N * W + 3
         [] fpc = "warmup" -> N * W + 2
         [] fpc = "request" -> (N - Len(reqs)) * W + (max_retries + 1 - attempt) + 3
         [] fpc = "window_end" -> (N - Len(reqs)) * W + 2
         [] fpc = "finish" -> 1
         [] fpc = "done" -> 0

\* C30: no window is requested more than max_retries + 1 times, no more than
\* ceil(timespan_hours / chunk_hours) windows are begun, and the GETs issued are at
\* most their product; the call can always take a step until it has returned, and
\* every step brings it nearer to its return, so it returns.
C30_FetchTerminates ==
    /\ [](\A w \in 1..Len(reqs) : reqs[w] <= max_retries + 1)
    /\ [](Len(reqs) <= CeilDiv(timespan_hours, chunk_hours))
    /\ [](TotalRequests <= CeilDiv(timespan_hours, chunk_hours) * (max_retries + 1))
    /\ [](Variant \in Nat)
    /\ [](fpc # "done" => ENABLED NextFetch)
    /\ [][Variant' < Variant]_vars

\* C30 witness: a call of three windows has returned after every window used up
\* its retries on 429 / 5xx responses: 3 * (max_retries + 1) GETs.
C30_Witness ==
    /\ fpc = "done" /\ NumWindows = 3
    /\ reqs = <<max_retries + 1, max_retries + 1, max_retries + 1>>
    /\ TotalRequests = CeilDiv(timespan_hours, chunk_hours) * (max_retries + 1)

(***************************************************************************)
(* EPGManager._merge_xmltv (core.py): one call                             *)
(***************************************************************************)

\* Bound: programme start times are 1 .. MaxStart.
MaxStart == 2

\* The channel ids and the display-name lists of the fragments' channels: a
\* channel without a display name, and one whose first display name is empty.
ChannelIds == {<<"a">>, <<"c">>}
DisplayNameLists == {<<>>, << <<>>, <<"B">> >>}
ChannelElems == [id : ChannelIds, display_names : DisplayNameLists]
\* A programme element as a fragment file holds it; the title tells apart the
\* programmes of equal channel and start.
ProgrammeShapes == [channel : ChannelIds, start : 1..MaxStart]

\* The sequences over S of length 0 or 1, and of length 0, 1 or 2.
UpTo1(S) == {<<>>} \cup {<<x>> : x \in S}
UpTo2(S) == UpTo1(S) \cup {<<x, y>> : x \in S, y \in S}

\* The title of programme i of fragment f.
Title(f, i) == 10 * f + i

\* A fragment file: its channel elements, and programme elements of these shapes.
Fragment(f, chs, shapes) ==
    [channel |-> chs,
     programme |-> [i \in 1..Len(shapes) |->
                      [channel |-> shapes[i].channel, start |-> shapes[i].start,
                       title |-> Title(f, i)]]]

\* str.casefold(), on the letters
LowerChar(c) ==
    IF \E i \in 1..26 : UpperCase[i] = c
    THEN LowerCase[CHOOSE i \in 1..26 : UpperCase[i] = c]
    ELSE c
casefold(str) == [i \in 1..Len(str) |-> LowerChar(str[i])]

\* The code point order of the letters: upper case before lower case.
CodePointOrder == UpperCase \o LowerCase
ord(c) == CHOOSE i \in 1..Len(CodePointOrder) : CodePointOrder[i] = c

\* a < b on str
StrLess(a, b) ==
    \E k \in 1..(Min(Len(a), Len(b)) + 1) :
        /\ \A i \in 1..(k - 1) : a[i] = b[i]
        /\ IF k > Len(a) THEN k <= Len(b)
           ELSE k <= Len(b) /\ ord(a[k]) < ord(b[k])

\* The permutations of 1 .. n
Perms(n) == {p \in [1..n -> 1..n] : \A i, j \in 1..n : p[i] = p[j] => i = j}

\* sorted() returning the items of equal key in any order.
sortedUnstable(seq, less) ==
    {[i \in 1..Len(seq) |-> seq[p[i]]] : p \in
        {q \in Perms(Len(seq)) :
            \A i, j \in 1..Len(seq) : i < j => <<q[j], q[i]>> \notin less}}

\* sorted() returning the items of equal key in the reverse of their order.
sortedTiesReversed(seq, less) ==
    LET n == Len(seq)
        ahead(i) == {j \in 1..n : \/ <<j, i>> \in less
                                  \/ j > i /\ <<i, j>> \notin less}
    IN {[k \in 1..n |-> seq[CHOOSE i \in 1..n : Cardinality(ahead(i)) = k - 1]]}

\* core.py:160, 166: sorted(seq, key=...), as the set of the lists it may return;
\* less has the pairs <<i, j>> with key(seq[i]) < key(seq[j]).  Python's sort is
\* stable: the items come in key order, those of equal key in their order in
\* seq, so the set has one element.
sorted(seq, less) ==
    LET n == Len(seq)
        \* the items that come before item i: those of a lesser key, and those
        \* of an equal key that precede it in seq
        ahead(i) == {j \in 1..n : \/ <<j, i>> \in less
                                  \/ j < i /\ <<i, j>> \notin less}
    IN {[k \in 1..n |-> seq[CHOOSE i \in 1..n : Cardinality(ahead(i)) = k - 1]]}

\* core.py:136-138: the first non-empty display name, or else the id, casefolded
_chan_name(ch) ==
    LET names == SelectSeq(ch.display_names, LAMBDA text : text # <<>>)
    IN casefold(IF names # <<>> THEN names[1] ELSE ch.id)

\* The elements of seq at the indices in S, in their order in seq.
RECURSIVE ItemsAt(_, _)
ItemsAt(seq, S) ==
    IF seq = <<>> THEN <<>>
    ELSE LET n == Len(seq)
             front == ItemsAt(SubSeq(seq, 1, n - 1), S \ {n})
         IN IF n \in S THEN Append(front, seq[n]) ELSE front

\* core.py:140-146, 154: the channel / programme elements of all the fragments,
\* in the order the loops visit them.
RECURSIVE AllChannels(_)
AllChannels(docs) ==
    IF docs = <<>> THEN <<>>
    ELSE AllChannels(SubSeq(docs, 1, Len(docs) - 1)) \o docs[Len(docs)].channel
RECURSIVE AllProgrammes(_)
AllProgrammes(docs) ==
    IF docs = <<>> THEN <<>>
    ELSE AllProgrammes(SubSeq(docs, 1, Len(docs) - 1)) \o docs[Len(docs)].programme

\* chan_map keeping, for an id, the last element met.
chan_map_last(docs) ==
    LET all == AllChannels(docs)
        firsts == {k \in 1..Len(all) : \A j \in 1..(k - 1) : all[j].id # all[k].id}
        latest(k) == CHOOSE m \in 1..Len(all) :
                        /\ all[m].id = all[k].id
                        /\ \A j \in (m + 1)..Len(all) : all[j].id # all[k].id
    IN [i \in 1..Len(ItemsAt(all, firsts)) |-> 
           all[latest(CHOOSE k \in firsts :
                         Cardinality({j \in firsts : j <= k}) = i)]]

\* core.py:146-152: chan_map after the loop over the fragments: a dict keeps its
\* keys in insertion order, and an id already present keeps its element.
chan_map(docs) ==
    LET all == AllChannels(docs)
    IN ItemsAt(all, {k \in 1..Len(all) : \A j \in 1..(k - 1) : all[j].id # all[k].id})

\* core.py:154-157, 166: prog_map.get(cid, []) after the loop over the fragments
prog_map(docs, cid) == SelectSeq(AllProgrammes(docs), LAMBDA pr : pr.channel = cid)

\* core.py:160: the order of the keys of the channel sort
ChanBefore(chans) ==
    {ij \in (1..Len(chans)) \X (1..Len(chans)) :
        StrLess(_chan_name(chans[ij[1]]), _chan_name(chans[ij[2]]))}
\* The programme sort by start descending.
ProgBeforeDescending(progs) ==
    {ij \in (1..Len(progs)) \X (1..Len(progs)) : progs[ij[1]].start > progs[ij[2]].start}

\* core.py:166: the order of the keys of the programme sort
ProgBefore(progs) ==
    {ij \in (1..Len(progs)) \X (1..Len(progs)) : progs[ij[1]].start < progs[ij[2]].start}

\* core.py:165-168: the programme elements appended for these channels, in order
RECURSIVE ProgrammeLists(_, _)
ProgrammeLists(docs, chans) ==
    IF chans = <<>> THEN {<<>>}
    ELSE LET mine == prog_map(docs, chans[Len(chans)].id)
         IN {front \o progs :
                front \in ProgrammeLists(docs, SubSeq(chans, 1, Len(chans) - 1)),
                progs \in sorted(mine, ProgBefore(mine))}

\* _merge_xmltv appending every programme element it read, whatever its channel.
MergeResultsAllProgrammes(docs) ==
    {[channel |-> chan_items, programme |-> AllProgrammes(docs)] :
        chan_items \in sorted(chan_map(docs), ChanBefore(chan_map(docs)))}

\* core.py:128-175: the documents a call of _merge_xmltv may write for these
\* fragments (paths is not empty: core.py:130-131 raises otherwise).
MergeResults(docs) ==
    UNION {{[channel |-> chan_items, programme |-> progs] :
               progs \in ProgrammeLists(docs, chan_items)} :
           chan_items \in sorted(chan_map(docs), ChanBefore(chan_map(docs)))}

\* The fragment lists merged: core.py:103 calls _merge_xmltv with two or more.
\* The first fragment has at most one programme, the second at most two.
MergeInputs ==
    {<<Fragment(1, c1, s1), Fragment(2, c2, s2)>> :
        c1 \in UpTo2(ChannelElems), s1 \in UpTo1(ProgrammeShapes),
        c2 \in UpTo2(ChannelElems), s2 \in UpTo2(ProgrammeShapes)}

\* A call of _merge_xmltv with its argument.
InitMerge ==
    /\ MgrIdle
    /\ FetchIdle
    /\ HttpIdle
    /\ OtherIdle
    /\ paths \in MergeInputs
    /\ mpc = "start"
    /\ tv_root = NoDoc

\* core.py:128-175
_merge_xmltv ==
    /\ mpc = "start"
    /\ tv_root' \in MergeResults(paths)
    /\ mpc' = "done"
    /\ UNCHANGED <<mgrVars, fetchVars, httpVars, otherVars, paths>>

NextMerge == _merge_xmltv

SpecMerge == InitMerge /\ [][NextMerge]_vars

(***************************************************************************)
(* Claims about _merge_xmltv, checked under SpecMerge                      *)
(***************************************************************************)

\* Two programme elements of the merged document with the same channel and start.
Collides(i, j) ==
    /\ i # j
    /\ tv_root.programme[i].channel = tv_root.programme[j].channel
    /\ tv_root.programme[i].start = tv_root.programme[j].start

\* Two channels of the merged document with the same sort key.
SameName(i, j) ==
    i # j /\ _chan_name(tv_root.channel[i]) = _chan_name(tv_root.channel[j])

\* C12: in the merged document no two programmes of a channel have the same
\* start: of the programmes colliding on (channel, start) only the first is kept.
C12_NoStartCollision ==
    mpc = "done" =>
        \A i, j \in 1..Len(tv_root.programme) : ~Collides(i, j)

\* C13: merging the one document a merge produced yields that document again:
\* the same channel list and the same programme list per channel.
C13_MergeIdempotent ==
    mpc = "done" => MergeResults(<<tv_root>>) = {tv_root}

\* C13 witness: a merged document with two channels of equal name and with
\* programmes of equal channel and start, from fragments whose programmes were
\* not in start order.
C13_Witness ==
    /\ mpc = "done"
    /\ Len(tv_root.channel) = 2 /\ SameName(1, 2)
    /\ \E i, j \in 1..Len(tv_root.programme) : Collides(i, j)
    /\ \E f \in 1..Len(paths) :
          Len(paths[f].programme) = 2
          /\ paths[f].programme[1].channel = paths[f].programme[2].channel
          /\ paths[f].programme[1].start > paths[f].programme[2].start

C15_ChannelOrder ==
    mpc = "done" =>
        \A i, j \in 1..Len(tv_root.channel) :
            i < j =>
                \/ StrLess(_chan_name(tv_root.channel[i]), _chan_name(tv_root.channel[j]))
                \/ /\ _chan_name(tv_root.channel[i]) = _chan_name(tv_root.channel[j])
                   /\ StrLess(tv_root.channel[i].id, tv_root.channel[j].id)

\* The fragments with a channel element of this id, and the first such element
\* of a fragment.
Holders(cid) ==
    {f \in 1..Len(paths) : \E k \in 1..Len(paths[f].channel) : paths[f].channel[k].id = cid}
FirstIn(f, cid) ==
    paths[f].channel[CHOOSE k \in 1..Len(paths[f].channel) :
                        /\ paths[f].channel[k].id = cid
                        /\ \A j \in 1..(k - 1) : paths[f].channel[j].id # cid]

\* C16: the merged document has exactly one channel element per channel id of
\* the fragments' channel elements, the one of the first fragment that has the
\* id; the later fragments give that id only their programmes.
C16_FirstChannelRecord ==
    mpc = "done" =>
        LET out == tv_root.channel
        IN /\ {out[i].id : i \in 1..Len(out)} = {cid \in ChannelIds : Holders(cid) # {}}
           /\ \A i, j \in 1..Len(out) : out[i].id = out[j].id => i = j
           /\ \A i \in 1..Len(out) :
                 out[i] = FirstIn(CHOOSE f \in Holders(out[i].id) :
                                     \A g \in Holders(out[i].id) : f <= g, out[i].id)
           /\ \A f \in 1..Len(paths) : \A k \in 1..Len(paths[f].programme) :
                 Holders(paths[f].programme[k].channel) # {} =>
                     \E m \in 1..Len(tv_root.programme) :
                         tv_root.programme[m] = paths[f].programme[k]

\* C16 witness: both fragments have a channel element of one id, with different
\* display names, and the second fragment has a programme of that channel.
C16_Witness ==
    /\ mpc = "done"
    /\ \E cid \in ChannelIds :
          /\ Holders(cid) = {1, 2}
          /\ FirstIn(1, cid) # FirstIn(2, cid)
          /\ \E k \in 1..Len(paths[2].programme) : paths[2].programme[k].channel = cid

\* The programme elements of the fragments, and the ids of the merged document's
\* channel elements.
InputProgrammes ==
    UNION {{paths[f].programme[k] : k \in 1..Len(paths[f].programme)} :
           f \in 1..Len(paths)}
OutputChannelIds == {tv_root.channel[i].id : i \in 1..Len(tv_root.channel)}

\* C31: for every channel of the merged document, its programmes in the document
\* are exactly the programmes of that channel id in the fragments, each once per
\* occurrence, in ascending order of start, those of equal start in the order of
\* their fragments and, within a fragment, of their place in it.
C31_ProgrammesSortedStable ==
    mpc = "done" =>
        LET out == tv_root.programme
        IN \A cid \in OutputChannelIds :
              LET mine == {m \in 1..Len(out) : out[m].channel = cid}
              IN /\ {out[m] : m \in mine} = {pr \in InputProgrammes : pr.channel = cid}
                 /\ Cardinality(mine) = Cardinality({pr \in InputProgrammes : pr.channel = cid})
                 /\ \A i, j \in mine :
                       i < j => \/ out[i].start < out[j].start
                                \/ /\ out[i].start = out[j].start
                                   /\ out[i].title < out[j].title

\* C31 witness: a channel with three programmes: the second fragment's first is the
\* earliest, and its second has the start of the first fragment's programme.
C31_Witness ==
    /\ mpc = "done"
    /\ Len(tv_root.programme) = 3
    /\ \A m \in 1..3 : tv_root.programme[m].channel = tv_root.programme[1].channel
    /\ [m \in 1..3 |-> tv_root.programme[m].start] = <<1, 2, 2>>
    /\ [m \in 1..3 |-> tv_root.programme[m].title] = <<Title(2, 1), Title(1, 1), Title(2, 2)>>

\* C32: every programme of the merged document names a channel of the document's
\* channel list.
C32_NoOrphanProgramme ==
    mpc = "done" =>
        \A m \in 1..Len(tv_root.programme) :
            tv_root.programme[m].channel \in OutputChannelIds

\* C32 witness: the fragments have a programme of a channel that none of them
\* declares beside one of a declared channel; the document has only the latter.
C32_Witness ==
    /\ mpc = "done"
    /\ \E pr \in InputProgrammes : pr.channel \notin OutputChannelIds
    /\ Len(tv_root.programme) = 1
    /\ Len(paths[2].programme) = 2

(***************************************************************************)
(* The channels of a fragment: fetch_zap2it_epg's accumulation and          *)
(* _write_xmltv (zap2it.py)                                                 *)
(***************************************************************************)

\* Bound: the channel objects of the responses of one fetch.
MaxChannels == 2

\* Python's None, and the values the API gives a channelId or stationId.
None == "(None)"
ApiIds == {None, "7", "8"}
ApiChannels == [channelId : ApiIds, stationId : ApiIds]

\* str(x), on None and strings
str(x) == IF x = None THEN "None" ELSE x
\* a or b
Or(a, b) == IF a # None /\ a # "" THEN a ELSE b

\* zap2it.py:276-279: the identifiers of the normalized channel
_normalize_channel(ch) ==
    [stationId |-> Or(ch.stationId, ch.channelId), channelId |-> ch.channelId]

\* zap2it.py:385-388, 397-398: channels_map.values() after the responses: a
\* channel object is normalized and kept when str(channelId) is not yet a key.
\* The sort at zap2it.py:422-429 is by name fields, which the model leaves out:
\* the values stay in insertion order.
channels_map_values(data) ==
    LET firsts == {k \in 1..Len(data) :
                     \A j \in 1..(k - 1) : str(data[j].channelId) # str(data[k].channelId)}
        kept == ItemsAt(data, firsts)
    IN [i \in 1..Len(kept) |-> _normalize_channel(kept[i])]

\* zap2it.py:447-449: the id attribute of a channel element
XmlId(ch) == str(Or(Or(ch.stationId, ch.channelId), ""))

\* One fetch with the channel objects of its responses.
InitXml ==
    /\ MgrIdle
    /\ FetchIdle
    /\ MergeIdle
    /\ HttpIdle
    /\ merge_lineups = TRUE
    /\ TempIdle
    /\ SrvIdle
    /\ api_channels \in UNION {[1..n -> ApiChannels] : n \in 0..MaxChannels}
    /\ xml_channels = <<>>
    /\ xpc = "start"

\* zap2it.py:418-419: nothing accumulated: the fetch fails and writes no file.
FetchNoChannels ==
    /\ xpc = "start"
    /\ channels_map_values(api_channels) = <<>>
    /\ xpc' = "failed"
    /\ UNCHANGED <<mgrVars, fetchVars, mergeVars, httpVars, api_channels, xml_channels,
                   merge_lineups, temp_dir, srvVars>>

\* zap2it.py:421-439, 442-449: the fragment's channel elements are written and
\* the fetch returns success.
_write_xmltv ==
    /\ xpc = "start"
    /\ channels_map_values(api_channels) # <<>>
    /\ xml_channels' = [i \in 1..Len(channels_map_values(api_channels)) |->
                            XmlId(channels_map_values(api_channels)[i])]
    /\ xpc' = "done"
    /\ UNCHANGED <<mgrVars, fetchVars, mergeVars, httpVars, api_channels,
                   merge_lineups, temp_dir, srvVars>>

NextXml == FetchNoChannels \/ _write_xmltv

SpecXml == InitXml /\ [][NextXml]_vars

\* C33: in the fragment a successful fetch wrote, every channel element's id is
\* non-empty and no two channel elements have the same id.
C33_FragmentIdsUnique ==
    xpc = "done" =>
        /\ \A i \in 1..Len(xml_channels) : xml_channels[i] # ""
        /\ \A i, j \in 1..Len(xml_channels) : xml_channels[i] = xml_channels[j] => i = j

(***************************************************************************)
(* The publish step of download_epg (core.py:102-117)                      *)
(***************************************************************************)

\* The fragments download_epg may have produced: one or two, each with one or
\* two channel elements (a fetch that found no channel fails) and up to one
\* programme, of one of its channels.
PublishFragments(f) ==
    UNION {{Fragment(f, c, sh) :
               sh \in UpTo1({p \in ProgrammeShapes :
                               \E k \in 1..Len(c) : c[k].id = p.channel})} :
           c \in UpTo2(ChannelElems) \ {<<>>}}
PublishInputs ==
    {<<f1>> : f1 \in PublishFragments(1)}
        \cup {<<f1, f2>> : f1 \in PublishFragments(1), f2 \in PublishFragments(2)}

\* download_epg at core.py:102 with its produced files (paths names their
\* contents) and the merge_lineups setting.
InitPublish ==
    /\ MgrIdle
    /\ FetchIdle
    /\ HttpIdle
    /\ XmlIdle
    /\ TempIdle
    /\ SrvIdle
    /\ merge_lineups \in BOOLEAN
    /\ paths \in PublishInputs
    /\ mpc = "start"
    /\ tv_root = NoDoc

\* core.py:103-109: the produced files are merged to the output path.
PublishMerged ==
    /\ mpc = "start"
    /\ merge_lineups /\ Len(paths) > 1
    /\ tv_root' \in MergeResults(paths)
    /\ mpc' = "done"
    /\ UNCHANGED <<mgrVars, fetchVars, httpVars, otherVars, paths>>

\* core.py:110-117: the first produced file is copied to the output path.
PublishCopied ==
    /\ mpc = "start"
    /\ ~(merge_lineups /\ Len(paths) > 1)
    /\ tv_root' = paths[1]
    /\ mpc' = "done"
    /\ UNCHANGED <<mgrVars, fetchVars, httpVars, otherVars, paths>>

NextPublish == PublishMerged \/ PublishCopied

SpecPublish == InitPublish /\ [][NextPublish]_vars

\* C34: the document at the output path is what the merger writes for the
\* produced fragments, whether one or several were produced and whether merging
\* is on or off: it has the channels and programmes of all of them, the channels
\* in the merger's order.
C34_PublishedIsMerged ==
    mpc = "done" => tv_root \in MergeResults(paths)

(***************************************************************************)
(* Further claims about the scheduler and download_epg                     *)
(***************************************************************************)

\* C35: a refresh that ends without success has not assigned last_refresh: a
\* thread whose run returns failure or raises does so from a step before the
\* assignment at core.py:123, never after it.
C35_FailureKeepsLastRefresh ==
    [][\A t \in Threads :
          (pc[t] # "dl_return" /\ pc'[t] = "dl_return" /\ result'[t] # "success") =>
              pc[t] \notin {"dl_setlast", "dl_save"} ]_vars

\* The scheduler of a server started with auto-refresh enabled (server.py:201-202),
\* with the worker thread scheduled fairly: a worker that can take a step of its
\* loop (scheduler.py:59-70) eventually takes it.
SpecLive ==
    /\ InitServe
    /\ [][Next]_vars
    /\ \A w \in SpecWorkers : WF_vars(LoopTop(w) \/ LoopSleep(w))

\* The scheduler is running: started, and not told to stop.
SchedulerRunning == _running /\ ~_stop_event /\ ctl = "ready"

\* C36: whenever the scheduler is running with auto-refresh enabled, the refresh
\* is due and the worker is in its loop and not in a refresh, the worker
\* eventually begins a refresh, unless before that the scheduler is stopped or
\* the refresh stops being due.
C36_DueRefreshStarts ==
    \A w \in SpecWorkers :
        (SchedulerRunning /\ _should_refresh /\ _thread = w /\ Looping(w))
            ~> (pc[w] = "dl_start" \/ ~SchedulerRunning \/ ~_should_refresh)

\* C36 witness: the worker begins a refresh while the scheduler is running, the
\* refresh being due because the clock has passed the interval since last_refresh.
C36_Witness ==
    \E w \in SpecWorkers :
        /\ SchedulerRunning /\ _thread = w
        /\ pc[w] = "dl_start"
        /\ last_refresh = 0 /\ saved_last_refresh = 0 /\ now = refresh_interval_hours
        /\ _should_refresh

(***************************************************************************)
(* download_epg and the temp directory: the fragment files of concurrent    *)
(* refreshes (core.py, zap2it.py:431-439)                                   *)
(***************************************************************************)

\* Two refresh_now threads, with one lineup or more configured and ESPN+ off.
InitTemp ==
    /\ Init
    /\ lineup_ids >= 1
    /\ ~espn_plus_enabled
    /\ ~auto_refresh_enabled
    /\ last_refresh = NoTime

\* core.py:55-75 with zap2it.py:431-439: one iteration of the lineup loop.  A
\* successful fetch has written its fragment to zap2it_<lineup>.xml in the temp
\* directory, over whatever was there, and the path is recorded.
TmpLineup(t) ==
    /\ pc[t] = "dl_lineup"
    /\ \E ok \in BOOLEAN :
         IF ok
         THEN /\ temp_dir' = [temp_dir EXCEPT ![CurLineup(t)] = t]
              /\ produced_files' = [produced_files EXCEPT ![t] = Append(@, CurLineup(t))]
              /\ pc' = [pc EXCEPT ![t] = IF CurLineup(t) < lineup_ids THEN "dl_lineup"
                                         ELSE "dl_espn"]
              /\ result' = result
         ELSE /\ result' = [result EXCEPT ![t] = "failure"]
              /\ pc' = [pc EXCEPT ![t] = "dl_return"]
              /\ UNCHANGED <<produced_files, temp_dir>>
    /\ UNCHANGED <<schedVars, cfgVars, last_refresh, saved_last_refresh, now,
                   published, fileVars, fetchVars, mergeVars, httpVars, xmlVars,
                   merge_lineups, srvVars>>

\* core.py:103, 106, 112: the recorded files the publish step reads: all of them
\* when it merges, the first when it copies.
FilesRead(t) ==
    IF merge_lineups /\ Len(produced_files[t]) > 1
    THEN {produced_files[t][k] : k \in 1..Len(produced_files[t])}
    ELSE {produced_files[t][1]}

\* core.py:102-117: the merge or copy, as one step: a recorded file that is gone
\* makes ET.parse / shutil.copyfile raise, and the run returns failure; otherwise
\* the output is written from what the files hold now (the document is named by
\* the writer of the first file's content).
TmpPublish(t) ==
    /\ pc[t] = "dl_open"
    /\ IF \E f \in FilesRead(t) : temp_dir[f] = NoFile
       THEN /\ result' = [result EXCEPT ![t] = "failure"]
            /\ pc' = [pc EXCEPT ![t] = "dl_return"]
            /\ UNCHANGED <<outFile, published>>
       ELSE /\ outFile' = Doc(temp_dir[produced_files[t][1]])
            /\ published' = [published EXCEPT ![t] = TRUE]
            /\ pc' = [pc EXCEPT ![t] = "dl_cleanup"]
            /\ result' = result
    /\ UNCHANGED <<schedVars, cfgVars, last_refresh, saved_last_refresh, now,
                   produced_files, wpos, fetchVars, mergeVars, httpVars, otherVars>>

\* core.py:120, 177-192: _cleanup_temp_files removes the recorded files and then
\* every .xml file of the temp directory.
TmpCleanup(t) ==
    /\ pc[t] = "dl_cleanup"
    /\ temp_dir' = [f \in TempFiles |-> NoFile]
    /\ pc' = [pc EXCEPT ![t] = "dl_setlast"]
    /\ UNCHANGED <<schedVars, cfgVars, last_refresh, saved_last_refresh, now, dlVars,
                   fileVars, fetchVars, mergeVars, httpVars, xmlVars, merge_lineups,
                   srvVars>>

NextTemp ==
    \/ refresh_now(ManualIds)
    \/ \E t \in ManualIds :
         \/ DlStart(t) \/ TmpLineup(t) \/ DlEspn(t) \/ TmpPublish(t)
         \/ TmpCleanup(t) \/ DlSetLast(t) \/ DlSave(t) \/ DoRefreshEnd(t)

SpecTemp == InitTemp /\ [][NextTemp]_vars

\* C37: from the moment a refresh has recorded a fragment file in produced_files
\* until it merges or copies, the file exists and holds that refresh's own
\* fetched content.
C37_OwnFragmentAtPublish ==
    \A t \in Threads :
        pc[t] \in {"dl_lineup", "dl_espn", "dl_open"} =>
            \A k \in 1..Len(produced_files[t]) : temp_dir[produced_files[t][k]] = t

(***************************************************************************)
(* EPGServer.start and EPGServer.stop (server.py:183-246, 275-283) and the *)
(* schedulers they create.  The EPGScheduler of the sections above is one  *)
(* object; an EPGServer makes a new one on every start() that finds the    *)
(* server not running, so here each has its own record: _running,          *)
(* _stop_event and where its worker thread is ("none": never started,      *)
(* "top": at the loop test, "refresh": in _do_refresh, "sleep", "exited"). *)
(* download_epg, modelled step by step above, is one step of a worker here.*)
(***************************************************************************)

\* The worker thread of scheduler k is alive.
WorkerAlive(k) == schedulers[k].worker \in {"top", "refresh", "sleep"}

\* The thread of scheduler k's worker, as a writer of the output file.
ServerWorker(k) == <<"s", k>>

InitServer ==
    /\ Init
    /\ lineup_ids = 1
    /\ ~espn_plus_enabled

\* server.py:183-246 with scheduler.py:32-43.  A running server only logs and
\* returns True.  Otherwise start() makes a new EPGScheduler, starts its worker
\* when auto-refresh is enabled, and only then binds: bound tells whether one of
\* the candidate addresses could be bound.  When none can, start() returns False
\* and what it did before stays done.
EPGServer_start ==
    /\ IF server_running
       THEN /\ server_ret' = "True"
            /\ UNCHANGED <<server_running, server_scheduler, schedulers>>
       ELSE /\ server_scheduler < MaxSchedulers
            /\ server_scheduler' = server_scheduler + 1
            /\ schedulers' =
                 IF auto_refresh_enabled
                 THEN [schedulers EXCEPT ![server_scheduler + 1] =
                          [_running |-> TRUE, _stop_event |-> FALSE, worker |-> "top"]]
                 ELSE schedulers
            /\ \E bound \in BOOLEAN :
                  /\ server_running' = bound
                  /\ server_ret' = IF bound THEN "True" ELSE "False"
    /\ UNCHANGED <<mgrVars, fetchVars, mergeVars, httpVars, xmlVars, merge_lineups,
                   temp_dir>>

\* server.py:275-283 with scheduler.py:45-52.  stop() stops self.scheduler only:
\* it sets the stop event and joins the worker for five seconds.  A worker at the
\* loop test or in its one-second sleep sees the event and ends within the join; a
\* worker inside _do_refresh may outlast it.  Then the HTTP server is shut down if
\* it runs.
EPGServer_stop ==
    /\ IF server_scheduler # NoScheduler /\ schedulers[server_scheduler]._running
       THEN schedulers' = [schedulers EXCEPT ![server_scheduler] =
                [_running |-> FALSE, _stop_event |-> TRUE,
                 worker |-> IF @.worker \in {"top", "sleep"} THEN "exited"
                            ELSE @.worker]]
       ELSE UNCHANGED schedulers
    /\ server_running' = FALSE
    /\ server_ret' = "none"
    /\ UNCHANGED <<server_scheduler, mgrVars, fetchVars, mergeVars, httpVars,
                   xmlVars, merge_lineups, temp_dir>>

\* scheduler.py:61-64: the loop test of scheduler k's worker
ServerLoopTop(k) ==
    /\ schedulers[k].worker = "top"
    /\ schedulers' = [schedulers EXCEPT ![k].worker =
                        IF schedulers[k]._stop_event THEN "exited"
                        ELSE IF _should_refresh THEN "refresh"
                        ELSE "sleep"]
    /\ UNCHANGED <<server_running, server_scheduler, server_ret, mgrVars, fetchVars,
                   mergeVars, httpVars, xmlVars, merge_lineups, temp_dir>>

\* scheduler.py:88-107 with core.py:42-126: _do_refresh of scheduler k's worker.
\* A successful download publishes the document and records the refresh time; a
\* failed one leaves both.
ServerRefresh(k) ==
    /\ schedulers[k].worker = "refresh"
    /\ \/ /\ outFile' = Doc(ServerWorker(k))
          /\ last_refresh' = now
          /\ saved_last_refresh' = now
       \/ UNCHANGED <<outFile, last_refresh, saved_last_refresh>>
    /\ schedulers' = [schedulers EXCEPT ![k].worker = "sleep"]
    /\ UNCHANGED <<server_running, server_scheduler, server_ret, cfgVars, now,
                   schedVars, pc, dlVars, wpos, fetchVars, mergeVars, httpVars,
                   xmlVars, merge_lineups, temp_dir>>

\* scheduler.py:66-70: the sleep ends, by the stop event or after a minute
ServerSleep(k) ==
    /\ schedulers[k].worker = "sleep"
    /\ schedulers' = [schedulers EXCEPT ![k].worker = "top"]
    /\ UNCHANGED <<server_running, server_scheduler, server_ret, mgrVars, fetchVars,
                   mergeVars, httpVars, xmlVars, merge_lineups, temp_dir>>

NextServer ==
    \/ EPGServer_start
    \/ EPGServer_stop
    \/ Tick
    \/ \E k \in SchedulerIds : ServerLoopTop(k)
    \/ \E k \in SchedulerIds : ServerRefresh(k)
    \/ \E k \in SchedulerIds : ServerSleep(k)

SpecServer == InitServer /\ [][NextServer]_vars

\* C38: when start() has returned False because no address could be bound, no
\* worker of a scheduler it created is running; and whatever start() and stop()
\* calls were made, at most one such worker is alive.
C38_NoStrayWorker ==
    /\ server_ret = "False" => \A k \in SchedulerIds : ~WorkerAlive(k)
    /\ Cardinality({k \in SchedulerIds : WorkerAlive(k)}) <= 1

(***************************************************************************)
(* The due predicate and the next due time of the status surface           *)
(* (scheduler.py:72-86, 114-137), for every text config.json may hold as   *)
(* last_refresh.                                                           *)
(***************************************************************************)

\* The values of config.last_refresh: unset, text that does not parse, and
\* timestamps with and without an offset.
LastRefreshValues ==
    {NoTime, Garbage} \cup (0..MaxTime) \cup {Naive(t) : t \in 0..MaxTime}

\* Config.load (config.py:66-90) has read config.json; nothing has been started.
InitDue ==
    /\ lineup_ids = 1
    /\ espn_plus_enabled = FALSE
    /\ auto_refresh_enabled \in BOOLEAN
    /\ refresh_interval_hours = 1
    /\ last_refresh \in LastRefreshValues
    /\ saved_last_refresh = last_refresh
    /\ now = 0
    /\ _running = FALSE
    /\ _stop_event = FALSE
    /\ _thread = NoThread
    /\ ctl = "ready"
    /\ pc = [t \in Threads |-> "idle"]
    /\ produced_files = [t \in Threads |-> <<>>]
    /\ published = [t \in Threads |-> FALSE]
    /\ result = [t \in Threads |-> "none"]
    /\ outFile = PrevDoc
    /\ wpos = [t \in Threads |-> 0]
    /\ FetchIdle
    /\ MergeIdle
    /\ HttpIdle
    /\ OtherIdle

\* The scheduler's worker, which asks _should_refresh, and the status endpoint,
\* which reports get_next_refresh_time, as time passes.
NextDue ==
    \/ Tick
    \/ start(SpecWorkers)
    \/ _get_status
    \/ \E w \in SpecWorkers : LoopTop(w) \/ LoopSleep(w)
    \/ \E w \in SpecWorkers : DlStep(w)

SpecDue == InitDue /\ [][NextDue]_vars

\* The last response is a status document, and what it reports is the scheduler's
\* state of this moment.
StatusIsCurrent ==
    /\ "scheduler" \in DOMAIN response
    /\ response.time = now
    /\ response.scheduler = get_status

\* C39: the next due time the status surface reports is None exactly when
\* auto-refresh is disabled, and when it is enabled _should_refresh is true
\* exactly when now has reached the reported next due time, whatever last_refresh
\* holds: unset, a timestamp, or text that is not one.
C39_NextDueAgrees ==
    StatusIsCurrent =>
        /\ (response.scheduler.next_refresh = NoTime) <=> ~auto_refresh_enabled
        /\ auto_refresh_enabled =>
              (_should_refresh <=> now >= Instant(response.scheduler.next_refresh))

====
